---- MODULE Spec2Model ----
(***************************************************************************)
(* Model of the keystatic client-side git object store (object-store.ts),  *)
(* the tree diff used when committing (diffTrees / getLeafPaths) and the   *)
(* extra-roots registry.                                                   *)
(*                                                                         *)
(* Representation                                                          *)
(*   - a path is a sequence of path segments ("a/b" is <<"a","b">>); the   *)
(*     template `${p}/${q}` is the concatenation p \o q, '' is <<>>;       *)
(*   - a JavaScript Map is a sequence of <<key, value>> pairs with unique  *)
(*     keys, in insertion order;                                           *)
(*   - a sha is a sequence of integers: <<n>> for the content n of a blob, *)
(*     and the canonical serialisation of the sorted entry list for a tree *)
(*     (an injective stand-in for the hash);                               *)
(*   - a TreeNode is a record [entry |-> TreeEntry] with a field children  *)
(*     exactly when the node carries a children Map.                       *)
(***************************************************************************)
EXTENDS Integers, Sequences, FiniteSets, TLC

\* ------------------------------------------------------------------------
\* Bounds
\* ------------------------------------------------------------------------
MaxNodes == 3
MaxDiffNodes == 4
MaxLoads == 1
MaxTime == 1
MaxOid == 2
MaxRoots == 2
MaxEntries == 2

\* The contents a file or symlink may have.
BlobContents == {1, 2}

\* Path segments, listed in git sort order.
Names == <<"a", "b">>
NameSet == {Names[i] : i \in 1..Len(Names)}

ModeBlob == "100644"
ModeSymlink == "120000"
ModeTree == "040000"
ModeIdx(m) == IF m = ModeBlob THEN 1 ELSE IF m = ModeSymlink THEN 2 ELSE 3

\* ------------------------------------------------------------------------
\* Sequence and Map helpers
\* ------------------------------------------------------------------------
RECURSIVE Flatten(_)
Flatten(ss) == IF ss = <<>> THEN <<>> ELSE Head(ss) \o Flatten(Tail(ss))

Range(s) == {s[i] : i \in 1..Len(s)}

MapKeys(m) == [i \in 1..Len(m) |-> m[i][1]]
MapHas(m, k) == \E i \in 1..Len(m) : m[i][1] = k
MapGet(m, k) == m[CHOOSE i \in 1..Len(m) : m[i][1] = k][2]
MapSet(m, k, v) ==
    IF MapHas(m, k)
    THEN [i \in 1..Len(m) |-> IF m[i][1] = k THEN <<k, v>> ELSE m[i]]
    ELSE Append(m, <<k, v>>)

\* ------------------------------------------------------------------------
\* TreeEntry / TreeNode
\* ------------------------------------------------------------------------
\* type is derived from mode
TypeOfMode(mode) ==
    IF mode = ModeTree THEN "tree"
    ELSE IF mode = ModeSymlink THEN "symlink" ELSE "blob"

HasChildren(node) == "children" \in DOMAIN node

BlobSha(n) == <<n>>

\* The hash of a tree: the serialisation of its entries sorted by name.
\* Each entry is written as name, mode, length of the sha, sha.
TreeSha(children) ==
    LET present == {children[i][1][1] : i \in 1..Len(children)}
        ser(i) ==
            IF Names[i] \in present
            THEN LET e == MapGet(children, <<Names[i]>>).entry
                 IN <<i, ModeIdx(e.mode), Len(e.sha)>> \o e.sha
            ELSE <<>>
    IN <<0>> \o Flatten([i \in 1..Len(Names) |-> ser(i)])

\* ------------------------------------------------------------------------
\* The trees the model draws its inputs from
\* ------------------------------------------------------------------------
\* A shape is a tree without paths and hashes: a sequence of items, each
\* [name, mode, blob] for a file or symlink and [name, mode, sub] for a
\* directory.
RECURSIVE ShapeSize(_)
ItemSize(e) == IF e.mode = ModeTree THEN 1 + ShapeSize(e.sub) ELSE 1
ShapeSize(s) == IF s = <<>> THEN 0 ELSE ItemSize(Head(s)) + ShapeSize(Tail(s))

RECURSIVE ShapesN(_, _)
ItemsN(n, nm) ==
    {[name |-> nm, mode |-> m, blob |-> c] :
        m \in {ModeBlob, ModeSymlink}, c \in BlobContents}
    \cup {[name |-> nm, mode |-> ModeTree, sub |-> s] : s \in ShapesN(n - 1, {})}
\* every shape of at most n nodes whose top-level names avoid `used`
ShapesN(n, used) ==
    IF n = 0 THEN {<<>>}
    ELSE {<<>>} \cup UNION { UNION {
             {<<e>> \o rest : rest \in ShapesN(n - ItemSize(e), used \cup {nm})}
           : e \in ItemsN(n, nm) } : nm \in NameSet \ used }

\* The children Map of the tree with this shape located at parentPath:
\* entry.path is the full path, entry.sha the content hash.
RECURSIVE MkMap(_, _)
MkNode(e, parentPath) ==
    LET innerPath == parentPath \o <<e.name>>
    IN IF e.mode = ModeTree
       THEN LET ch == MkMap(e.sub, innerPath)
            IN [entry |-> [path |-> innerPath, mode |-> ModeTree,
                           sha |-> TreeSha(ch), type |-> "tree"],
                children |-> ch]
       ELSE [entry |-> [path |-> innerPath, mode |-> e.mode,
                        sha |-> BlobSha(e.blob), type |-> TypeOfMode(e.mode)]]
MkMap(shape, parentPath) ==
    [i \in 1..Len(shape) |-> <<(<<shape[i].name>>), MkNode(shape[i], parentPath)>>]

RECURSIVE MapSize(_)
MapSize(m) ==
    IF m = <<>> THEN 0
    ELSE 1 + (IF HasChildren(Head(m)[2]) THEN MapSize(Head(m)[2].children) ELSE 0)
           + MapSize(Tail(m))

AllTrees == {MkMap(s, <<>>) : s \in ShapesN(MaxNodes, {})}

\* Pairs of trees diffed against each other: a tree against itself, and every
\* two trees of at most MaxDiffNodes nodes together.
TreesOfSize(k) == {t \in AllTrees : MapSize(t) = k}
DiffPairs ==
    {<<t, t>> : t \in AllTrees}
    \cup UNION {TreesOfSize(q[1]) \X TreesOfSize(q[2]) :
                  q \in {r \in (0..MaxNodes) \X (0..MaxNodes) :
                             r[1] + r[2] <= MaxDiffNodes}}

\* ------------------------------------------------------------------------
\* getLeafPaths, diffTrees
\* ------------------------------------------------------------------------
RECURSIVE getLeafPaths(_)
getLeafPaths(tree) ==
    LET pathsOf(kv) ==
            LET path == kv[1]
                node == kv[2]
            IN IF node.entry.type = "tree"
               THEN IF ~HasChildren(node) THEN <<>>
                    ELSE LET result == getLeafPaths(node.children)
                         IN [j \in 1..Len(result) |-> path \o result[j]]
               ELSE <<path>>
    IN Flatten([i \in 1..Len(tree) |-> pathsOf(tree[i])])

\* oldNode?.children ?? new Map()
ChildrenOrEmpty(tree, path) ==
    IF MapHas(tree, path) /\ HasChildren(MapGet(tree, path))
    THEN MapGet(tree, path).children ELSE <<>>

\* diffTrees without `deletions.delete(path)`: every old key is deleted
RECURSIVE diffTrees_KeepDeletions(_, _)
diffTrees_KeepDeletions(oldTree, newTree) ==
    LET changed(path, node) ==
            ~MapHas(oldTree, path) \/ MapGet(oldTree, path).entry.sha # node.entry.sha
        nested(kv) ==
            IF changed(kv[1], kv[2]) /\ kv[2].entry.type = "tree" /\ HasChildren(kv[2])
            THEN diffTrees_KeepDeletions(ChildrenOrEmpty(oldTree, kv[1]), kv[2].children)
            ELSE [additions |-> <<>>, deletions |-> <<>>]
        addsOf(kv) ==
            (IF changed(kv[1], kv[2]) /\ kv[2].entry.type = "blob"
             THEN <<[path |-> kv[1], sha |-> kv[2].entry.sha]>> ELSE <<>>)
            \o [j \in 1..Len(nested(kv).additions) |->
                   [path |-> kv[1] \o nested(kv).additions[j].path,
                    sha |-> nested(kv).additions[j].sha]]
        delsOf(kv) ==
            [j \in 1..Len(nested(kv).deletions) |-> kv[1] \o nested(kv).deletions[j]]
        deletions == MapKeys(oldTree)
        expand(deletion) ==
            LET node == MapGet(oldTree, deletion)
            IN IF node.entry.type = "tree" /\ HasChildren(node)
               THEN LET leaves == getLeafPaths(node.children)
                    IN [j \in 1..Len(leaves) |-> deletion \o leaves[j]]
               ELSE <<deletion>>
    IN [additions |-> Flatten([i \in 1..Len(newTree) |-> addsOf(newTree[i])]),
        deletions |-> Flatten([i \in 1..Len(newTree) |-> delsOf(newTree[i])])
                      \o Flatten([i \in 1..Len(deletions) |-> expand(deletions[i])])]

\* diffTrees without the sha comparison: every entry of the new tree counts
\* as changed
RECURSIVE diffTrees_NoShortCircuit(_, _)
diffTrees_NoShortCircuit(oldTree, newTree) ==
    LET nested(kv) ==
            IF kv[2].entry.type = "tree" /\ HasChildren(kv[2])
            THEN diffTrees_NoShortCircuit(ChildrenOrEmpty(oldTree, kv[1]), kv[2].children)
            ELSE [additions |-> <<>>, deletions |-> <<>>]
        addsOf(kv) ==
            (IF kv[2].entry.type = "blob"
             THEN <<[path |-> kv[1], sha |-> kv[2].entry.sha]>> ELSE <<>>)
            \o [j \in 1..Len(nested(kv).additions) |->
                   [path |-> kv[1] \o nested(kv).additions[j].path,
                    sha |-> nested(kv).additions[j].sha]]
        delsOf(kv) ==
            [j \in 1..Len(nested(kv).deletions) |-> kv[1] \o nested(kv).deletions[j]]
        deletions == SelectSeq(MapKeys(oldTree), LAMBDA k : ~MapHas(newTree, k))
        expand(deletion) ==
            LET node == MapGet(oldTree, deletion)
            IN IF node.entry.type = "tree" /\ HasChildren(node)
               THEN LET leaves == getLeafPaths(node.children)
                    IN [j \in 1..Len(leaves) |-> deletion \o leaves[j]]
               ELSE <<deletion>>
    IN [additions |-> Flatten([i \in 1..Len(newTree) |-> addsOf(newTree[i])]),
        deletions |-> Flatten([i \in 1..Len(newTree) |-> delsOf(newTree[i])])
                      \o Flatten([i \in 1..Len(deletions) |-> expand(deletions[i])])]

RECURSIVE diffTrees(_, _)
diffTrees(oldTree, newTree) ==
    LET \* !oldNode || oldNode.entry.sha !== node.entry.sha
        changed(path, node) ==
            ~MapHas(oldTree, path) \/ MapGet(oldTree, path).entry.sha # node.entry.sha
        \* the recursive call made for a changed directory of the new tree
        nested(kv) ==
            IF changed(kv[1], kv[2]) /\ kv[2].entry.type = "tree" /\ HasChildren(kv[2])
            THEN diffTrees(ChildrenOrEmpty(oldTree, kv[1]), kv[2].children)
            ELSE [additions |-> <<>>, deletions |-> <<>>]
        \* what one iteration of the loop over newTree pushes to additions
        addsOf(kv) ==
            (IF changed(kv[1], kv[2]) /\ kv[2].entry.type = "blob"
             THEN <<[path |-> kv[1], sha |-> kv[2].entry.sha]>> ELSE <<>>)
            \o [j \in 1..Len(nested(kv).additions) |->
                   [path |-> kv[1] \o nested(kv).additions[j].path,
                    sha |-> nested(kv).additions[j].sha]]
        \* ... and to allDeletions
        delsOf(kv) ==
            [j \in 1..Len(nested(kv).deletions) |-> kv[1] \o nested(kv).deletions[j]]
        \* the Set `deletions` after the loop: the old keys the new tree lacks
        deletions == SelectSeq(MapKeys(oldTree), LAMBDA k : ~MapHas(newTree, k))
        expand(deletion) ==
            LET node == MapGet(oldTree, deletion)
            IN IF node.entry.type = "tree" /\ HasChildren(node)
               THEN LET leaves == getLeafPaths(node.children)
                    IN [j \in 1..Len(leaves) |-> deletion \o leaves[j]]
               ELSE <<deletion>>
    IN [additions |-> Flatten([i \in 1..Len(newTree) |-> addsOf(newTree[i])]),
        deletions |-> Flatten([i \in 1..Len(newTree) |-> delsOf(newTree[i])])
                      \o Flatten([i \in 1..Len(deletions) |-> expand(deletions[i])])]

\* ------------------------------------------------------------------------
\* collectTrees, constructTreeFromStoredTrees
\* ------------------------------------------------------------------------
\* path.replace(/.*\//, ''): the last segment of a path
Basename(path) == IF path = <<>> THEN <<>> ELSE <<path[Len(path)]>>

\* The StoredTreeEntry[] that collectTrees builds for one children Map.
StoredEntries(children) ==
    [i \in 1..Len(children) |->
        [path |-> Basename(children[i][1]),
         mode |-> children[i][2].entry.mode,
         sha |-> children[i][2].entry.sha]]

\* collectTrees recursing with the parent's sha instead of the child's
RECURSIVE collectTrees_ParentSha(_, _)
collectTrees_ParentSha(sha, children) ==
    Flatten([i \in 1..Len(children) |->
        IF HasChildren(children[i][2])
        THEN collectTrees_ParentSha(sha, children[i][2].children)
        ELSE <<>>])
    \o << <<sha, StoredEntries(children)>> >>

\* collectTrees pushing [sha, entries] before it descends
RECURSIVE collectTrees_RootFirst(_, _)
collectTrees_RootFirst(sha, children) ==
    << <<sha, StoredEntries(children)>> >>
    \o Flatten([i \in 1..Len(children) |->
        IF HasChildren(children[i][2])
        THEN collectTrees_RootFirst(children[i][2].entry.sha, children[i][2].children)
        ELSE <<>>])

\* What collectTrees(sha, children, allTrees) appends to allTrees: the pairs
\* of every subtree, in the order of the loop, then [sha, entries].
RECURSIVE collectTrees(_, _)
collectTrees(sha, children) ==
    Flatten([i \in 1..Len(children) |->
        IF HasChildren(children[i][2])
        THEN collectTrees(children[i][2].entry.sha, children[i][2].children)
        ELSE <<>>])
    \o << <<sha, StoredEntries(children)>> >>

\* Map.set / setMany of a list of [key, value] pairs, in order
RECURSIVE SetAll(_, _)
SetAll(m, pairs) ==
    IF pairs = <<>> THEN m
    ELSE SetAll(MapSet(m, Head(pairs)[1], Head(pairs)[2]), Tail(pairs))

\* `undefined` is <<>>, a value v is <<v>>
Undefined == <<>>
Defined(v) == <<v>>

\* constructTreeFromStoredTrees that leaves out a directory it cannot build
\* instead of giving up
RECURSIVE constructTreeFromStoredTrees_SkipMissing(_, _, _)
constructTreeFromStoredTrees_SkipMissing(sha, trees, parentPath) ==
    IF ~MapHas(trees, sha) THEN Undefined
    ELSE LET storedTree == MapGet(trees, sha)
             innerPath(e) == parentPath \o e.path
             child(e) == constructTreeFromStoredTrees_SkipMissing(e.sha, trees, innerPath(e))
             nodeOf(e) ==
                 IF e.mode = ModeTree THEN child(e)[1]
                 ELSE [entry |-> [mode |-> e.mode, path |-> innerPath(e),
                                  sha |-> e.sha,
                                  type |-> IF e.mode = ModeSymlink THEN "symlink" ELSE "blob"]]
             kept == SelectSeq(storedTree,
                         LAMBDA e : e.mode # ModeTree \/ child(e) # Undefined)
         IN Defined(
              [entry |-> [mode |-> ModeTree, path |-> parentPath,
                          sha |-> sha, type |-> "tree"],
               children |-> SetAll(<<>>, [i \in 1..Len(kept) |->
                                <<kept[i].path, nodeOf(kept[i])>>])])

RECURSIVE constructTreeFromStoredTrees(_, _, _)
constructTreeFromStoredTrees(sha, trees, parentPath) ==
    IF ~MapHas(trees, sha) THEN Undefined
    ELSE LET storedTree == MapGet(trees, sha)
             \* (parentPath === '' ? '' : parentPath + '/') + entry.path
             innerPath(e) == parentPath \o e.path
             child(e) == constructTreeFromStoredTrees(e.sha, trees, innerPath(e))
             nodeOf(e) ==
                 IF e.mode = ModeTree THEN child(e)[1]
                 ELSE [entry |-> [mode |-> e.mode, path |-> innerPath(e),
                                  sha |-> e.sha,
                                  type |-> IF e.mode = ModeSymlink THEN "symlink" ELSE "blob"]]
         IN \* the loop returns undefined at the first directory it cannot build
            IF \E i \in 1..Len(storedTree) :
                   storedTree[i].mode = ModeTree /\ child(storedTree[i]) = Undefined
            THEN Undefined
            ELSE Defined(
                   [entry |-> [mode |-> ModeTree, path |-> parentPath,
                               sha |-> sha, type |-> "tree"],
                    children |-> SetAll(<<>>, [i \in 1..Len(storedTree) |->
                                     <<storedTree[i].path, nodeOf(storedTree[i])>>])])

\* ------------------------------------------------------------------------
\* The persistent stores, the tree cache and the extra-roots registry
\* ------------------------------------------------------------------------
\* A value of the tree store is [ok, entries]: ok says whether
\* treeSchema.safeParse accepts it, entries is the parsed array.
StoredValue(entries) == [ok |-> TRUE, entries |-> entries]

\* A store or Map keyed by sha whose order is never observed is a function.
EmptyFn == [k \in {} |-> <<>>]
FnSetAll(f, pairs) ==
    LET keys == {pairs[i][1] : i \in 1..Len(pairs)}
        last(k) == CHOOSE i \in 1..Len(pairs) :
                       /\ pairs[i][1] = k
                       /\ \A j \in 1..Len(pairs) : pairs[j][1] = k => j <= i
    IN [k \in DOMAIN f \cup keys |-> IF k \in keys THEN pairs[last(k)][2] ELSE f[k]]
FnRemove(f, keys) == [k \in DOMAIN f \ keys |-> f[k]]

\* the Map getStoredTrees builds from entries(getTreeStore())
ParsedTrees(store) ==
    [k \in {x \in DOMAIN store : store[x].ok} |-> store[k].entries]

\* the cache as the Map handed to constructTreeFromStoredTrees
RECURSIVE AsMap(_)
AsMap(f) ==
    IF DOMAIN f = {} THEN <<>>
    ELSE LET k == CHOOSE x \in DOMAIN f : TRUE
         IN <<(<<k, f[k]>>)>> \o AsMap(FnRemove(f, {k}))

\* A JSON value is [t, s, m]: its type, the characters of a string and the
\* members of an object.
JString(x) == [t |-> "string", s |-> x, m |-> EmptyFn]
JNumber == [t |-> "number", s |-> <<>>, m |-> EmptyFn]
JNull == [t |-> "null", s |-> <<>>, m |-> EmptyFn]
JObject(members) == [t |-> "object", s |-> <<>>, m |-> members]
\* what reading a member the object lacks gives
JMissing == [t |-> "undefined", s |-> <<>>, m |-> EmptyFn]
\* an object that may carry the members sha, updatedAt and one more
JEntry(sha, updatedAt, extra) ==
    JObject([sha |-> sha, updatedAt |-> updatedAt, extra |-> extra])

\* The value of localStorage['ks-roots-<scope>']: absent (getItem returns
\* null), the empty string, a text JSON.parse rejects, or the text of the
\* JSON value val.
NoItem == [kind |-> "absent", val |-> JNull]
BlankItem == [kind |-> "blank", val |-> JNull]
GarbledItem == [kind |-> "text", val |-> JNull]
JsonItem(val) == [kind |-> "json", val |-> val]

\* A Date is its time value; new Date(x) of a string that is no date is the
\* Invalid Date. The ISO string of the Date d is <<"iso", d>>.
InvalidDate == -1
ToISOString(d) == <<"iso", d>>
\* new Date(x) reading the current time instead of the string
ParseDate_Now(x) == IF x[1] = "iso" THEN MaxTime ELSE InvalidDate
ParseDate(x) == IF x[1] = "iso" THEN x[2] ELSE InvalidDate
\* JSON.stringify(Object.fromEntries([...map].map(...))); every Date written
\* comes from new Date() or from ParseDate of an ISO string
Stringify(map) ==
    JsonItem(JObject([b \in DOMAIN map |->
        JEntry(JString(map[b].sha), JString(ToISOString(map[b].updatedAt)),
               JMissing)]))

\* extraRootsSchema accepts a value: an object whose every member is an
\* object with a string sha and a string updatedAt
SchemaAccepts(val) ==
    /\ val.t = "object"
    /\ \A b \in DOMAIN val.m :
           /\ val.m[b].t = "object"
           /\ val.m[b].m.sha.t = "string"
           /\ val.m[b].m.updatedAt.t = "string"

\* getExtraRoots returning the members as they are, without the schema
getExtraRoots_NoSchema(item) ==
    IF item.kind \in {"absent", "blank"} THEN EmptyFn
    ELSE IF item.kind # "json" THEN EmptyFn
    ELSE IF item.val.t # "object" THEN EmptyFn
    ELSE [b \in DOMAIN item.val.m |->
             [sha |-> IF item.val.m[b].t = "object" THEN item.val.m[b].m.sha.s
                      ELSE <<>>,
              updatedAt |-> 0]]

\* getExtraRoots(config)
getExtraRoots(item) ==
    \* if (!val) return new Map()
    IF item.kind \in {"absent", "blank"} THEN EmptyFn
    \* JSON.parse throws: catch { return new Map() }
    ELSE IF item.kind # "json" THEN EmptyFn
    \* extraRootsSchema.parse throws: catch { return new Map() }
    ELSE IF ~SchemaAccepts(item.val) THEN EmptyFn
    ELSE [b \in DOMAIN item.val.m |->
             [sha |-> item.val.m[b].m.sha.s,
              updatedAt |-> ParseDate(item.val.m[b].m.updatedAt.s)]]

\* new Set(list), in insertion order
RECURSIVE Dedup(_)
Dedup(list) ==
    IF list = <<>> THEN <<>>
    ELSE LET front == Dedup(SubSeq(list, 1, Len(list) - 1))
             x == list[Len(list)]
         IN IF x \in Range(front) THEN front ELSE Append(front, x)

\* the marking loop over an array in place of the Set: queue.push(entry.sha)
\* appends a sha the queue already holds
RECURSIVE MarkLoop_Requeue(_, _, _, _)
MarkLoop_Requeue(queue, i, blobsToDelete, treesToDelete) ==
    IF i > Len(queue)
    THEN [blobs |-> blobsToDelete, trees |-> treesToDelete, visited |-> queue]
    ELSE LET sha == queue[i]
         IN IF sha \in blobsToDelete
            THEN MarkLoop_Requeue(queue, i + 1, blobsToDelete \ {sha}, treesToDelete)
            ELSE IF sha \in DOMAIN treesToDelete
            THEN LET tree == treesToDelete[sha]
                 IN MarkLoop_Requeue(
                        queue \o [j \in 1..Len(tree) |-> tree[j].sha], i + 1,
                        blobsToDelete, FnRemove(treesToDelete, {sha}))
            ELSE MarkLoop_Requeue(queue, i + 1, blobsToDelete, treesToDelete)

\* The marking loop of garbageCollectGitObjects: `for (const sha of queue)`
\* from position i on, with entries added to the queue while it runs. The
\* loop visits the Set in insertion order, so when it ends the queue lists
\* the hashes in the order it processed them.
RECURSIVE MarkLoop(_, _, _, _)
MarkLoop(queue, i, blobsToDelete, treesToDelete) ==
    IF i > Len(queue)
    THEN [blobs |-> blobsToDelete, trees |-> treesToDelete, visited |-> queue]
    ELSE LET sha == queue[i]
         IN IF sha \in blobsToDelete
            THEN MarkLoop(queue, i + 1, blobsToDelete \ {sha}, treesToDelete)
            ELSE IF sha \in DOMAIN treesToDelete
            THEN LET tree == treesToDelete[sha]
                 IN MarkLoop(
                        Dedup(queue \o [j \in 1..Len(tree) |-> tree[j].sha]), i + 1,
                        blobsToDelete, FnRemove(treesToDelete, {sha}))
            ELSE MarkLoop(queue, i + 1, blobsToDelete, treesToDelete)

\* ------------------------------------------------------------------------
\* State
\* ------------------------------------------------------------------------
VARIABLES
    dOld,       \* diff: scopedTrees.committed.tree
    dNew,       \* diff: scopedTrees.current.tree
    dOut,       \* diff: [done, additions, deletions], the value diffTrees returned
    tIn,        \* round trip: the children Map handed to setTreeToPersistedCache
    tAll,       \* round trip: allTrees, the list collectTrees filled
    tOut,       \* round trip: what constructTreeFromStoredTrees returned
    tPc,        \* round trip: "start", "collected" or "built"
    treeStore,  \* the IndexedDB store 'trees': sha -> stored value
    blobStore,  \* the IndexedDB store 'blobs': the keys it holds
    cache,      \* _storedTreeCache: [loaded, map]
    loads,      \* the getStoredTrees reads in flight, each the Map it will install
    lsRoots,    \* localStorage['ks-roots-<scope>']
    roots,      \* ExtraRootsProvider: the state `roots`
    ctxRoots,   \* ExtraRootsProvider: the `roots` the memoised set/remove close over
    now,        \* the clock read by new Date()
    regOp,      \* history: the last call of the registry and what it found
    gc,         \* the garbageCollectGitObjects call: its position and locals
    gcPre,      \* history: the stores and roots when that call was made
    gcSolo,     \* history: no other operation ran since that call was made
    clr,        \* the clearObjectStore call: its position, and history
    cm,         \* useCommitTree: its state and the commit call under way
    remote,     \* the git host: the head and the protection of each branch
    del,        \* ItemPage: the onDelete call under way
    mark        \* a run of the collector's marking loop: its inputs and outcome

varsDiff == <<dOld, dNew, dOut>>
varsTrees == <<tIn, tAll, tOut, tPc>>
varsObjects == <<treeStore, blobStore, cache, loads>>
varsRegistry == <<lsRoots, roots, ctxRoots, now, regOp>>
varsStore == <<treeStore, blobStore, cache, loads, lsRoots, roots, ctxRoots, now, regOp,
               gc, gcPre, gcSolo, clr, cm, remote, del, mark>>
varsCommit == <<cm, remote>>
varsFlow == <<del, mark>>
vars == <<dOld, dNew, dOut, tIn, tAll, tOut, tPc, treeStore, blobStore, cache, loads,
          lsRoots, roots, ctxRoots, now, regOp, gc, gcPre, gcSolo, clr, cm, remote,
          del, mark>>

NothingToDelete == [blobs |-> {}, treeKeys |-> {}]
GcIdle == [pc |-> "idle", roots |-> <<>>, treesToDelete |-> EmptyFn,
           toDelete |-> NothingToDelete]
NoOp == [kind |-> "none", branch |-> "", sha |-> <<>>, at |-> 0, had |-> FALSE,
         before |-> <<>>]
\* no clearObjectStore call is under way; solo: nothing else ran since the
\* call; had: what the stores and the registry held at the call
ClrIdle == [pc |-> "idle", solo |-> FALSE,
            had |-> [blobs |-> FALSE, trees |-> FALSE, roots |-> FALSE]]
NoPre == [trees |-> EmptyFn, blobs |-> {}, cache |-> [loaded |-> FALSE, map |-> EmptyFn],
          callerRoots |-> {}, extraRoots |-> {}]

\* The state when the page has loaded: nothing stored, nothing cached.
StoreStart ==
    /\ treeStore = EmptyFn /\ blobStore = {}
    /\ cache = [loaded |-> FALSE, map |-> EmptyFn] /\ loads = {}
    /\ lsRoots = NoItem /\ roots = getExtraRoots(NoItem) /\ ctxRoots = getExtraRoots(NoItem)
    /\ now = 0 /\ regOp = NoOp
    /\ gc = GcIdle /\ gcPre = NoPre /\ gcSolo = FALSE
    /\ clr = ClrIdle

\* the branches of the repository; the first one is checked out
CommitBranches == <<"main", "dev">>
CurrentBranch == CommitBranches[1]
Oids == 1..MaxOid

NoError == [message |-> "", sha |-> <<>>, path |-> <<>>]
\* useCommitTree before any call: state {kind: 'idle'}, no call under way
CmNone == [state |-> "idle", pc |-> "none", ret |-> "none", end |-> "none",
           kind |-> "none", access |-> FALSE, branch |-> "",
           additions |-> <<>>, found |-> <<>>, missing |-> <<>>,
           sent |-> <<>>, replies |-> <<>>, fetches |-> <<>>, local |-> 0,
           error |-> NoError]
RemoteStart == [head |-> [b \in Range(CommitBranches) |-> 1], protected |-> {}]
CommitUnused == cm = CmNone /\ remote = RemoteStart

\* no onDelete call is under way; no marking run is set up
\* tree: newTree.tree; ok: whether its setMany succeeds; history: before, the
\* registry item when onDelete was called; written, the roots whose write
\* has resolved; doomed, whether the collector under way at the registration
\* had marked the tree for deletion
DelNone == [pc |-> "idle", tree |-> <<>>, ok |-> FALSE, before |-> NoItem,
            written |-> {}, doomed |-> FALSE]
MarkNone == [pc |-> "none", roots |-> <<>>, blobs |-> {}, trees |-> EmptyFn,
             visited |-> <<>>, blobsToDelete |-> {}, treesToDelete |-> {}]
FlowUnused == del = DelNone /\ mark = MarkNone

\* the parts of the state a specification does not use stay as they are here
NoDiff == [done |-> FALSE, additions |-> <<>>, deletions |-> <<>>]
DiffUnused == dOld = <<>> /\ dNew = <<>> /\ dOut = NoDiff
TreesUnused == tIn = <<>> /\ tAll = <<>> /\ tOut = <<>> /\ tPc = "start"

\* ------------------------------------------------------------------------
\* The diff of two trees
\* ------------------------------------------------------------------------
InitDiff ==
    /\ \E p \in DiffPairs : dOld = p[1] /\ dNew = p[2]
    /\ dOut = NoDiff
    /\ TreesUnused /\ StoreStart /\ CommitUnused /\ FlowUnused

RunDiff ==
    /\ ~dOut.done
    /\ dOut' = [done |-> TRUE,
                additions |-> diffTrees(dOld, dNew).additions,
                deletions |-> diffTrees(dOld, dNew).deletions]
    /\ UNCHANGED <<dOld, dNew>>
    /\ UNCHANGED <<varsTrees, varsStore>>

NextDiff == RunDiff

SpecDiff == InitDiff /\ [][NextDiff]_vars

\* ------------------------------------------------------------------------
\* Storing a tree and building it again
\* ------------------------------------------------------------------------
InitTrees ==
    /\ tIn \in AllTrees
    /\ tAll = <<>> /\ tOut = Undefined /\ tPc = "start"
    /\ DiffUnused /\ StoreStart /\ CommitUnused /\ FlowUnused

\* setTreeToPersistedCache(sha, children): collectTrees(sha, children, allTrees)
Collect ==
    /\ tPc = "start"
    /\ tAll' = collectTrees(TreeSha(tIn), tIn)
    /\ tPc' = "collected"
    /\ UNCHANGED <<tIn, tOut>>
    /\ UNCHANGED <<varsDiff, varsStore>>

\* constructTreeFromStoredTrees(sha, trees) on the Map the pairs were set in
Construct ==
    /\ tPc = "collected"
    /\ tOut' = constructTreeFromStoredTrees(TreeSha(tIn), SetAll(<<>>, tAll), <<>>)
    /\ tPc' = "built"
    /\ UNCHANGED <<tIn, tAll>>
    /\ UNCHANGED <<varsDiff, varsStore>>

NextTrees == Collect \/ Construct

SpecTrees == InitTrees /\ [][NextTrees]_vars

\* ------------------------------------------------------------------------
\* Building a tree from a mapping that lacks some of its trees
\* ------------------------------------------------------------------------
\* the list s without the positions in D
RECURSIVE Without(_, _)
Without(s, D) ==
    IF s = <<>> THEN <<>>
    ELSE LET front == Without(SubSeq(s, 1, Len(s) - 1), D)
         IN IF Len(s) \in D THEN front ELSE Append(front, s[Len(s)])

\* The stored trees are those of tIn with any of them absent (deleted by a
\* collection, or never written).
InitBuild ==
    /\ tIn \in AllTrees
    /\ \E D \in SUBSET (1..Len(collectTrees(TreeSha(tIn), tIn))) :
           tAll = Without(collectTrees(TreeSha(tIn), tIn), D)
    /\ tOut = Undefined /\ tPc = "collected"
    /\ DiffUnused /\ StoreStart /\ CommitUnused /\ FlowUnused

NextBuild == Construct

SpecBuild == InitBuild /\ [][NextBuild]_vars

\* ------------------------------------------------------------------------
\* The object store: writes, cache loads, the registry, garbage collection
\* ------------------------------------------------------------------------
\* The trees written in this specification: {a: #1} and {a: {a: #1}, b: #2},
\* whose directory a is the first tree again.
TreeA == MkMap(<<[name |-> "a", mode |-> ModeBlob, blob |-> 1]>>, <<>>)
TreeN == MkMap(<<[name |-> "a", mode |-> ModeTree,
                  sub |-> <<[name |-> "a", mode |-> ModeBlob, blob |-> 1]>>],
                 [name |-> "b", mode |-> ModeBlob, blob |-> 2]>>, <<>>)
StoreInputs == {TreeA, TreeN}
RootShas == {TreeSha(t) : t \in StoreInputs}

\* the branches, in the order the registry lists them
Branches == <<"main">>

\* the roots a caller hands to garbageCollectGitObjects
CallerRoots == {<<>>} \cup {<<r>> : r \in RootShas}

InitStore ==
    /\ StoreStart
    /\ DiffUnused /\ TreesUnused /\ CommitUnused /\ FlowUnused

\* An operation other than the collector ran: the record of the stores at the
\* call is dropped, and so is the frame of a call that has returned.
OtherThanGc ==
    /\ gcSolo' = FALSE
    /\ gcPre' = NoPre
    /\ gc' = IF gc.pc = "done" THEN GcIdle ELSE gc

\* the same for an operation other than clearObjectStore
OtherThanClear ==
    clr' = IF clr.pc = "done" THEN ClrIdle
           ELSE [clr EXCEPT !.solo = FALSE, !.had = ClrIdle.had]

Interleaved == OtherThanGc /\ OtherThanClear

\* setBlobToPersistedCache(sha, val)
SetBlob ==
    \E c \in BlobContents :
        /\ blobStore' = blobStore \cup {BlobSha(c)}
        /\ UNCHANGED <<treeStore, cache, loads>>
        /\ UNCHANGED varsRegistry /\ Interleaved
        /\ UNCHANGED <<varsDiff, varsTrees, varsCommit, varsFlow>>

\* setTreeToPersistedCache(sha, children)
SetTree ==
    \E t \in StoreInputs :
        LET allTrees == collectTrees(TreeSha(t), t)
        IN /\ cache' = IF cache.loaded
                       THEN [cache EXCEPT !.map = FnSetAll(@, allTrees)]
                       ELSE cache
           /\ treeStore' = FnSetAll(treeStore,
                               [i \in 1..Len(allTrees) |->
                                   <<allTrees[i][1], StoredValue(allTrees[i][2])>>])
           /\ UNCHANGED <<blobStore, loads>>
           /\ UNCHANGED varsRegistry /\ Interleaved
           /\ UNCHANGED <<varsDiff, varsTrees, varsCommit, varsFlow>>

\* getStoredTrees() while _storedTreeCache is unset: entries(getTreeStore())
\* is issued and reads the store as it is now.
LoadStart ==
    /\ ~cache.loaded
    /\ Cardinality(loads) < MaxLoads
    /\ loads' = loads \cup {ParsedTrees(treeStore)}
    /\ UNCHANGED <<treeStore, blobStore, cache>>
    /\ UNCHANGED varsRegistry /\ Interleaved
    /\ UNCHANGED <<varsDiff, varsTrees, varsCommit, varsFlow>>

\* ... and its continuation: _storedTreeCache = cache
LoadFinish ==
    \E m \in loads :
        /\ cache' = [loaded |-> TRUE, map |-> m]
        /\ loads' = loads \ {m}
        /\ UNCHANGED <<treeStore, blobStore>>
        /\ UNCHANGED varsRegistry /\ Interleaved
        /\ UNCHANGED <<varsDiff, varsTrees, varsCommit, varsFlow>>

\* setVal(map): setRoots(map) and localStorage.setItem(key, JSON.stringify(...))
SetVal(map) ==
    /\ roots' = map
    /\ lsRoots' = Stringify(map)
    /\ UNCHANGED <<ctxRoots, now>>

\* set: (branch, sha) => setVal(new Map(roots).set(branch, {sha, updatedAt: new Date()}))
ProviderSet(branch, sha) ==
    SetVal([b \in DOMAIN ctxRoots \cup {branch} |->
               IF b = branch THEN [sha |-> sha, updatedAt |-> now] ELSE ctxRoots[b]])

\* remove: branch => { newRoots = new Map(roots); newRoots.delete(branch); setVal(newRoots) }
ProviderRemove(branch) ==
    SetVal([b \in DOMAIN ctxRoots \ {branch} |-> ctxRoots[b]])

\* useExtraRoots().set(branch, sha)
ExtraRootsSet ==
    \E i \in 1..Len(Branches), sha \in RootShas :
        /\ ProviderSet(Branches[i], sha)
        /\ UNCHANGED regOp
        /\ UNCHANGED varsObjects /\ Interleaved
        /\ UNCHANGED <<varsDiff, varsTrees, varsCommit, varsFlow>>

\* useExtraRoots().remove(branch)
ExtraRootsRemove ==
    \E i \in 1..Len(Branches) :
        /\ ProviderRemove(Branches[i])
        /\ UNCHANGED regOp
        /\ UNCHANGED varsObjects /\ Interleaved
        /\ UNCHANGED <<varsDiff, varsTrees, varsCommit, varsFlow>>

\* the provider renders again: useMemo recomputes set/remove over the new roots
Rerender ==
    /\ ctxRoots # roots
    /\ ctxRoots' = roots
    /\ UNCHANGED <<lsRoots, roots, now, regOp>>
    /\ UNCHANGED varsObjects /\ Interleaved
    /\ UNCHANGED <<varsDiff, varsTrees, varsCommit, varsFlow>>

\* [...getExtraRoots(config).values()].map(x => x.sha)
ExtraRootShas(item) ==
    LET map == getExtraRoots(item)
        listed == SelectSeq(Branches, LAMBDA b : b \in DOMAIN map)
    IN [i \in 1..Len(listed) |-> map[listed[i]].sha]

\* What the collector will delete, given its roots, the blob keys it read and
\* the trees it copied from the cache: the marking loop, then
\* [...treesToDelete.keys(), ...invalidTrees]. Every value of the cache has
\* passed treeSchema, so the second safeParse succeeds and invalidTrees is
\* empty.
ToDelete(rootList, allBlobs, trees) ==
    LET marked == MarkLoop(Dedup(rootList), 1, allBlobs, trees)
    IN [blobs |-> marked.blobs, treeKeys |-> DOMAIN marked.trees]

\* garbageCollectGitObjects(config, _roots) up to its first wait: the roots
\* are read; with the cache set the trees are copied from it and
\* keys(getBlobStore()) is issued, otherwise entries(getTreeStore()) is.
\* A read returns the store as it was when it was issued, so the outcome of
\* the marking loop is fixed here and kept in place of the locals it reads.
GcCall ==
    \E R \in CallerRoots :
        /\ gc.pc \in {"idle", "done"}
        /\ gc' = IF cache.loaded
                 THEN [pc |-> "keys", roots |-> <<>>, treesToDelete |-> EmptyFn,
                       toDelete |-> ToDelete(R \o ExtraRootShas(lsRoots),
                                             blobStore, cache.map)]
                 ELSE [pc |-> "load", roots |-> R \o ExtraRootShas(lsRoots),
                       treesToDelete |-> ParsedTrees(treeStore),
                       toDelete |-> NothingToDelete]
        /\ gcPre' = [trees |-> treeStore, blobs |-> blobStore, cache |-> cache,
                     callerRoots |-> Range(R),
                     extraRoots |-> Range(ExtraRootShas(lsRoots))]
        /\ gcSolo' = TRUE
        /\ OtherThanClear
        /\ UNCHANGED <<varsObjects, varsRegistry>>
        /\ UNCHANGED <<varsDiff, varsTrees, varsCommit, varsFlow>>

\* its getStoredTrees() read returns: the cache is installed, the trees are
\* copied from it and keys(getBlobStore()) is issued
GcLoaded ==
    /\ gc.pc = "load"
    /\ cache' = [loaded |-> TRUE, map |-> gc.treesToDelete]
    /\ gc' = [pc |-> "keys", roots |-> <<>>, treesToDelete |-> EmptyFn,
              toDelete |-> ToDelete(gc.roots, blobStore, gc.treesToDelete)]
    /\ UNCHANGED <<treeStore, blobStore, loads, gcPre, gcSolo>>
    /\ OtherThanClear
    /\ UNCHANGED varsRegistry
    /\ UNCHANGED <<varsDiff, varsTrees, varsCommit, varsFlow>>

\* the sweep without its delMany on the tree store
GcSweep_BlobsOnly ==
    /\ gc.pc = "keys"
    /\ blobStore' = blobStore \ gc.toDelete.blobs
    /\ gc' = [gc EXCEPT !.pc = "delete", !.toDelete.blobs = {}]
    /\ UNCHANGED <<treeStore, cache, loads, gcPre, gcSolo>>
    /\ OtherThanClear
    /\ UNCHANGED varsRegistry
    /\ UNCHANGED <<varsDiff, varsTrees, varsCommit, varsFlow>>

\* the blob keys arrive, the marking loop runs and both delMany are issued
GcSweep ==
    /\ gc.pc = "keys"
    /\ blobStore' = blobStore \ gc.toDelete.blobs
    /\ treeStore' = FnRemove(treeStore, gc.toDelete.treeKeys)
    /\ gc' = [gc EXCEPT !.pc = "delete", !.toDelete.blobs = {}]
    /\ UNCHANGED <<cache, loads, gcPre, gcSolo>>
    /\ OtherThanClear
    /\ UNCHANGED varsRegistry
    /\ UNCHANGED <<varsDiff, varsTrees, varsCommit, varsFlow>>

\* both delMany have completed: _storedTreeCache?.delete(key) for each key
GcEvict ==
    /\ gc.pc = "delete"
    /\ cache' = IF cache.loaded
                THEN [cache EXCEPT !.map = FnRemove(@, gc.toDelete.treeKeys)]
                ELSE cache
    /\ gc' = [gc EXCEPT !.pc = "done", !.toDelete = NothingToDelete]
    /\ UNCHANGED <<treeStore, blobStore, loads, gcPre, gcSolo>>
    /\ OtherThanClear
    /\ UNCHANGED varsRegistry
    /\ UNCHANGED <<varsDiff, varsTrees, varsCommit, varsFlow>>

NextStore ==
    \/ SetBlob \/ SetTree \/ LoadStart \/ LoadFinish
    \/ ExtraRootsSet \/ ExtraRootsRemove \/ Rerender
    \/ GcCall \/ GcLoaded \/ GcSweep \/ GcEvict

SpecStore == InitStore /\ [][NextStore]_vars

\* ------------------------------------------------------------------------
\* Deleting an entry: ItemPage's onDelete, with the collector running
\* ------------------------------------------------------------------------
\* onDelete() with the current tree loaded, up to its first await:
\* updateTreeWithChanges(currentTree.tree, {deletions, additions: []}) is
\* called
DeleteCall ==
    /\ del.pc \in {"idle", "done", "failed"}
    /\ del' = [del EXCEPT !.pc = "update", !.tree = <<>>, !.ok = FALSE,
                          !.before = lsRoots, !.doomed = FALSE]
    /\ UNCHANGED mark
    /\ UNCHANGED <<varsObjects, varsRegistry>> /\ Interleaved
    /\ UNCHANGED <<varsDiff, varsTrees, varsCommit>>

\* newTree has arrived: setTreeToPersistedCache(newTree.sha, newTree.tree)
\* adds the trees to the cache when it is set and issues setMany, which
\* writes all of them or, when it fails, none
DeletePersist ==
    \E t \in StoreInputs, ok \in BOOLEAN :
        LET allTrees == collectTrees(TreeSha(t), t)
        IN /\ del.pc = "update"
           /\ cache' = IF cache.loaded
                       THEN [cache EXCEPT !.map = FnSetAll(@, allTrees)]
                       ELSE cache
           /\ treeStore' = IF ok
                           THEN FnSetAll(treeStore,
                                    [i \in 1..Len(allTrees) |->
                                        <<allTrees[i][1], StoredValue(allTrees[i][2])>>])
                           ELSE treeStore
           /\ del' = [del EXCEPT !.pc = "persist", !.tree = t, !.ok = ok]
           /\ UNCHANGED <<blobStore, loads, mark>>
           /\ UNCHANGED varsRegistry /\ Interleaved
           /\ UNCHANGED <<varsDiff, varsTrees, varsCommit>>

\* `await p` carrying on although p was rejected
Resolved_Always(ok) == TRUE
\* `await p` carries on when p resolved and throws when it was rejected
Resolved(ok) == ok

\* the collector under way has read its roots and will delete the tree sha
Condemned(sha) ==
    \/ gc.pc = "keys" /\ sha \in gc.toDelete.treeKeys
    \/ gc.pc = "load"
         /\ sha \in ToDelete(gc.roots, blobStore, gc.treesToDelete).treeKeys

\* the promise of setTreeToPersistedCache settles: resolved,
\* extraRoots.set(branchInfo.currentBranch, newTree.sha) and router.push run;
\* rejected, onDelete rejects
DeleteSettle ==
    /\ del.pc = "persist"
    /\ IF Resolved(del.ok)
       THEN /\ ProviderSet(Branches[1], TreeSha(del.tree))
            /\ del' = [del EXCEPT !.pc = "done",
                                  !.written = IF del.ok THEN @ \cup {TreeSha(del.tree)}
                                              ELSE @,
                                  !.doomed = Condemned(TreeSha(del.tree))]
       ELSE /\ UNCHANGED <<lsRoots, roots, ctxRoots, now>>
            /\ del' = [del EXCEPT !.pc = "failed"]
    /\ UNCHANGED <<regOp, mark>>
    /\ UNCHANGED varsObjects /\ Interleaved
    /\ UNCHANGED <<varsDiff, varsTrees, varsCommit>>

NextDelete ==
    \/ DeleteCall \/ DeletePersist \/ DeleteSettle
    \/ LoadStart \/ LoadFinish
    \/ GcCall \/ GcLoaded \/ GcSweep \/ GcEvict

SpecDelete == InitStore /\ [][NextDelete]_vars

\* ------------------------------------------------------------------------
\* The marking loop on arbitrary stores
\* ------------------------------------------------------------------------
\* Three hashes: <<1>> may be a blob, <<0, 1>> a blob or a tree (a blob wins),
\* <<0, 2>> a tree; each may also be in neither store.
MarkHashes == {<<1>>, <<0, 1>>, <<0, 2>>}
MarkBlobKeys == {<<1>>, <<0, 1>>}
MarkTreeKeys == {<<0, 1>>, <<0, 2>>}
SeqsUpTo(S, n) == UNION {[1..k -> S] : k \in 0..n}
\* the entry lists of a stored tree: any hashes, its own and repeats included
MarkEntryLists ==
    {[i \in 1..Len(q) |-> [path |-> Names[1], mode |-> ModeBlob, sha |-> q[i]]]
        : q \in SeqsUpTo(MarkHashes, MaxEntries)}

InitMark ==
    /\ \E R \in SeqsUpTo(MarkHashes, MaxRoots), B \in SUBSET MarkBlobKeys,
          D \in SUBSET MarkTreeKeys :
          \E T \in [D -> MarkEntryLists] :
              mark = [MarkNone EXCEPT !.pc = "start", !.roots = R, !.blobs = B,
                                      !.trees = T]
    /\ del = DelNone
    /\ StoreStart
    /\ DiffUnused /\ TreesUnused /\ CommitUnused

\* lines 236-251: blobsToDelete = new Set(allBlobs), queue = new Set(roots),
\* then the loop
RunMark ==
    /\ mark.pc = "start"
    /\ LET out == MarkLoop(Dedup(mark.roots), 1, mark.blobs, mark.trees)
       IN mark' = [mark EXCEPT !.pc = "done", !.visited = out.visited,
                               !.blobsToDelete = out.blobs,
                               !.treesToDelete = DOMAIN out.trees]
    /\ UNCHANGED del
    /\ UNCHANGED <<varsObjects, varsRegistry, gc, gcPre, gcSolo, clr>>
    /\ UNCHANGED <<varsDiff, varsTrees, varsCommit>>

NextMark == RunMark

SpecMark == InitMark /\ [][NextMark]_vars

\* ------------------------------------------------------------------------
\* Clearing the object store
\* ------------------------------------------------------------------------
\* localStorage.removeItem(key) that leaves the item in place
RemoveItem_Keep(item) == item
\* localStorage.removeItem(key)
RemoveItem(item) == NoItem

\* clearObjectStore(config) up to its await: the registry item is removed and
\* clear() is issued on both stores
ClearCall ==
    /\ clr.pc \in {"idle", "done"}
    /\ lsRoots' = RemoveItem(lsRoots)
    /\ blobStore' = {}
    /\ treeStore' = EmptyFn
    /\ clr' = [pc |-> "clearing", solo |-> TRUE,
                had |-> [blobs |-> blobStore # {}, trees |-> treeStore # EmptyFn,
                         roots |-> getExtraRoots(lsRoots) # EmptyFn]]
    /\ UNCHANGED <<cache, loads, roots, ctxRoots, now, regOp>>
    /\ OtherThanGc
    /\ UNCHANGED <<varsDiff, varsTrees, varsCommit, varsFlow>>

\* both clear() have completed: clearObjectStore resolves
ClearDone ==
    /\ clr.pc = "clearing"
    /\ clr' = IF clr.solo THEN [clr EXCEPT !.pc = "done"] ELSE ClrIdle
    /\ UNCHANGED <<varsObjects, varsRegistry>>
    /\ OtherThanGc
    /\ UNCHANGED <<varsDiff, varsTrees, varsCommit, varsFlow>>

NextClear ==
    \/ SetBlob \/ SetTree \/ LoadStart \/ LoadFinish
    \/ ExtraRootsSet \/ ExtraRootsRemove \/ Rerender
    \/ ClearCall \/ ClearDone

SpecClear == InitStore /\ [][NextClear]_vars

\* ------------------------------------------------------------------------
\* A tree store holding a value treeSchema rejects
\* ------------------------------------------------------------------------
\* what safeParse rejects: a value that is no array of {path, mode, sha}
InvalidValue == [ok |-> FALSE, entries |-> <<>>]
InvalidKey == TreeSha(TreeA)

\* such a value, left under the key of a tree by an earlier writer, is in
\* the store when the page loads
InitForeign ==
    /\ treeStore = [k \in {InvalidKey} |-> InvalidValue] /\ blobStore = {}
    /\ cache = [loaded |-> FALSE, map |-> EmptyFn] /\ loads = {}
    /\ lsRoots = NoItem /\ roots = getExtraRoots(NoItem) /\ ctxRoots = getExtraRoots(NoItem)
    /\ now = 0 /\ regOp = NoOp
    /\ gc = GcIdle /\ gcPre = NoPre /\ gcSolo = FALSE
    /\ clr = ClrIdle
    /\ DiffUnused /\ TreesUnused /\ CommitUnused /\ FlowUnused

SpecForeign == InitForeign /\ [][NextStore]_vars

\* ------------------------------------------------------------------------
\* Reading trees while the cache loads, with no collector and no clear
\* ------------------------------------------------------------------------
\* getTreeFromPersistedCache(sha): what the call returns or resolves with.
\* With the cache set the tree is built from it; otherwise getStoredTrees
\* issues entries(getTreeStore()), which reads the store as it is at the
\* call, and the tree is built from that.
getTreeFromPersistedCache(sha) ==
    constructTreeFromStoredTrees(
        sha, AsMap(IF cache.loaded THEN cache.map ELSE ParsedTrees(treeStore)), <<>>)

\* getTreeFromPersistedCache(sha) while _storedTreeCache is set: the tree is
\* built from the cache and returned at once (LoadStart is the call made
\* while it is unset). tIn is the tree asked for, tOut what was returned.
GetTree ==
    \E t \in StoreInputs :
        /\ cache.loaded
        /\ tIn' = t
        /\ tOut' = getTreeFromPersistedCache(TreeSha(t))
        /\ tPc' = "built"
        /\ UNCHANGED tAll
        /\ UNCHANGED varsObjects
        /\ UNCHANGED varsRegistry /\ Interleaved
        /\ UNCHANGED <<varsDiff, varsCommit, varsFlow>>

NextCache == SetBlob \/ SetTree \/ LoadStart \/ LoadFinish \/ GetTree

SpecCache == InitStore /\ [][NextCache]_vars

\* ------------------------------------------------------------------------
\* The extra-roots registry of one scope
\* ------------------------------------------------------------------------
RegistryBranches == <<"main", "dev">>

InitRegistry ==
    /\ StoreStart
    /\ DiffUnused /\ TreesUnused /\ CommitUnused /\ FlowUnused

\* what the persisted registry holds for a branch before a call
Held(branch) ==
    LET before == getExtraRoots(lsRoots)
    IN [had |-> branch \in DOMAIN before,
        sha |-> IF branch \in DOMAIN before THEN before[branch].sha ELSE <<>>]

RegistrySet ==
    \E i \in 1..Len(RegistryBranches), sha \in RootShas :
        /\ ProviderSet(RegistryBranches[i], sha)
        /\ regOp' = [kind |-> "set", branch |-> RegistryBranches[i], sha |-> sha,
                      at |-> now, had |-> Held(RegistryBranches[i]).had,
                      before |-> Held(RegistryBranches[i]).sha]
        /\ UNCHANGED varsObjects /\ Interleaved
        /\ UNCHANGED <<varsDiff, varsTrees, varsCommit, varsFlow>>

RegistryRemove ==
    \E i \in 1..Len(RegistryBranches) :
        /\ ProviderRemove(RegistryBranches[i])
        /\ regOp' = [kind |-> "remove", branch |-> RegistryBranches[i], sha |-> <<>>,
                      at |-> now, had |-> Held(RegistryBranches[i]).had,
                      before |-> Held(RegistryBranches[i]).sha]
        /\ UNCHANGED varsObjects /\ Interleaved
        /\ UNCHANGED <<varsDiff, varsTrees, varsCommit, varsFlow>>

\* time passes
Tick ==
    /\ now < MaxTime
    /\ now' = now + 1
    /\ UNCHANGED <<lsRoots, roots, ctxRoots, regOp>>
    /\ UNCHANGED varsObjects /\ Interleaved
    /\ UNCHANGED <<varsDiff, varsTrees, varsCommit, varsFlow>>

NextRegistry == RegistrySet \/ RegistryRemove \/ Rerender \/ Tick

SpecRegistry == InitRegistry /\ [][NextRegistry]_vars

\* ------------------------------------------------------------------------
\* The registry of a scope that is cleared and that another tab writes too
\* ------------------------------------------------------------------------
\* useExtraRoots().set(branch, sha) in another tab of the same scope, whose
\* provider mounted over the registry as it is persisted now: that tab's
\* setVal writes the item, and nothing of this tab's provider changes
TabProviderSet(branch, sha) ==
    LET theirs == getExtraRoots(lsRoots)
    IN /\ lsRoots' = Stringify(
              [b \in DOMAIN theirs \cup {branch} |->
                  IF b = branch THEN [sha |-> sha, updatedAt |-> now] ELSE theirs[b]])
       /\ lsRoots' # lsRoots
       /\ UNCHANGED <<roots, ctxRoots, now, regOp>>

TabSet ==
    \E i \in 1..Len(RegistryBranches), sha \in RootShas :
        /\ TabProviderSet(RegistryBranches[i], sha)
        /\ UNCHANGED varsObjects /\ Interleaved
        /\ UNCHANGED <<varsDiff, varsTrees, varsCommit, varsFlow>>

NextScope ==
    \/ RegistrySet \/ RegistryRemove \/ Rerender \/ Tick
    \/ ClearCall \/ ClearDone \/ TabSet

SpecScope == InitRegistry /\ [][NextScope]_vars

\* ------------------------------------------------------------------------
\* Collecting in one tab what another tab of the same scope wrote
\* ------------------------------------------------------------------------
\* setTreeToPersistedCache(sha, children) in the other tab: the trees reach
\* the shared store; _storedTreeCache of this tab is another module instance
\* and is not touched
TabSetTree ==
    \E t \in StoreInputs :
        LET allTrees == collectTrees(TreeSha(t), t)
        IN /\ treeStore' = FnSetAll(treeStore,
                               [i \in 1..Len(allTrees) |->
                                   <<allTrees[i][1], StoredValue(allTrees[i][2])>>])
           /\ treeStore' # treeStore
           /\ UNCHANGED <<blobStore, cache, loads>>
           /\ UNCHANGED varsRegistry /\ Interleaved
           /\ UNCHANGED <<varsDiff, varsTrees, varsCommit, varsFlow>>

\* useExtraRoots().set(branch, sha) in the other tab
TabRegister ==
    \E i \in 1..Len(Branches), sha \in RootShas :
        /\ TabProviderSet(Branches[i], sha)
        /\ UNCHANGED varsObjects /\ Interleaved
        /\ UNCHANGED <<varsDiff, varsTrees, varsCommit, varsFlow>>

\* this tab reads trees and collects; blobs are written by either tab, trees
\* and roots by the other one
NextTabs ==
    \/ SetBlob \/ TabSetTree \/ TabRegister
    \/ LoadStart \/ LoadFinish
    \/ GcCall \/ GcLoaded \/ GcSweep \/ GcEvict

SpecTabs == InitStore /\ [][NextTabs]_vars

\* ------------------------------------------------------------------------
\* Mounting the provider over what an earlier session persisted
\* ------------------------------------------------------------------------
\* the members an object found under the key may hold for a branch
PersistedMembers ==
    {JEntry(JString(sha), JString(ToISOString(d)), JMissing) :
        sha \in RootShas, d \in 0..MaxTime}
    \cup {JNumber, JNull,
          JEntry(JNumber, JString(ToISOString(0)), JMissing),
          JEntry(JString(TreeSha(TreeA)), JNumber, JMissing),
          JEntry(JMissing, JString(ToISOString(0)), JMissing),
          JEntry(JString(TreeSha(TreeA)), JMissing, JMissing),
          JEntry(JString(TreeSha(TreeA)), JString(<<"text", 0>>), JMissing),
          JEntry(JString(TreeSha(TreeA)), JString(ToISOString(0)), JNumber)}

PersistedItems ==
    {NoItem, BlankItem, GarbledItem, JsonItem(JNull), JsonItem(JNumber),
     JsonItem(JString(<<>>))}
    \cup {JsonItem(JObject(f)) :
            f \in UNION {[D -> PersistedMembers] : D \in SUBSET Range(RegistryBranches)}}

InitItems ==
    /\ lsRoots \in PersistedItems
    /\ treeStore = EmptyFn /\ blobStore = {}
    /\ cache = [loaded |-> FALSE, map |-> EmptyFn] /\ loads = {}
    /\ roots = EmptyFn /\ ctxRoots = EmptyFn
    /\ now = 0 /\ regOp = NoOp
    /\ gc = GcIdle /\ gcPre = NoPre /\ gcSolo = FALSE
    /\ clr = ClrIdle
    /\ DiffUnused /\ TreesUnused /\ CommitUnused /\ FlowUnused

\* useState(() => getExtraRoots(props.config)) on the first render
Mount ==
    /\ regOp.kind = "none"
    /\ roots' = getExtraRoots(lsRoots)
    /\ ctxRoots' = getExtraRoots(lsRoots)
    /\ regOp' = [NoOp EXCEPT !.kind = "mount"]
    /\ UNCHANGED <<lsRoots, now>>
    /\ UNCHANGED varsObjects /\ UNCHANGED <<gc, gcPre, gcSolo, clr>>
    /\ UNCHANGED <<varsDiff, varsTrees, varsCommit, varsFlow>>

NextItems == Mount

SpecItems == InitItems /\ [][NextItems]_vars

\* ------------------------------------------------------------------------
\* Committing: useCommitTree
\* ------------------------------------------------------------------------
StorageKinds == {"github", "cloud", "local"}

\* the committed and the current tree: a file became a directory and a file
\* was added, and the reverse
CommitPairs == {<<TreeA, TreeN>>, <<TreeN, TreeA>>}

\* scopedTrees.committed.tree is dOld and scopedTrees.current.tree is dNew
InitCommit ==
    /\ \E p \in CommitPairs : dOld = p[1] /\ dNew = p[2]
    /\ dOut = NoDiff
    /\ TreesUnused /\ StoreStart
    /\ cm = CmNone /\ FlowUnused
    /\ \E P \in SUBSET Range(CommitBranches) :
           remote = [RemoteStart EXCEPT !.protected = P]

\* the commit function returning without its setState: the state stays as
\* it was
Return_KeepState(state, ret, error) ==
    [cm EXCEPT !.end = cm.state, !.ret = ret, !.pc = "none",
               !.error = error, !.kind = "none", !.access = FALSE,
               !.additions = <<>>, !.found = <<>>]
\* the commit function returns: setState(state) where it does so, the
\* promise resolves with ret, the locals are gone
Return(state, ret, error) ==
    [cm EXCEPT !.state = state, !.end = state, !.ret = ret, !.pc = "none",
               !.error = error, !.kind = "none", !.access = FALSE,
               !.additions = <<>>, !.found = <<>>]

\* the commit function without its try/catch: the error leaves the function,
\* whose promise rejects with the state as it was
Caught_Rethrow(error) ==
    [cm EXCEPT !.end = cm.state, !.ret = "rejected", !.pc = "none",
               !.error = error, !.kind = "none", !.access = FALSE,
               !.additions = <<>>, !.found = <<>>]
\* catch (err) { setState({kind: 'error', error: err}); return false }
Caught(error) == Return("error", "false", error)

Failure(message) == [message |-> message, sha |-> <<>>, path |-> <<>>]

\* the commit function leaves the stores, the registry and the trees alone
CommitFrame ==
    /\ UNCHANGED <<varsDiff, varsTrees, varsObjects, varsRegistry, varsFlow>>
    /\ Interleaved

\* commit(override) up to its first await. Without both trees loaded it
\* returns false; without write access to a github repository that has an
\* app it asks for a fork; otherwise it diffs the trees and starts to read
\* the blob of every addition.
CommitCall ==
    LET fresh == [CmNone EXCEPT !.state = cm.state]
        \* const diff = diffTrees(committed.tree, current.tree), then
        \* getBlobFromPersistedCache(addition.sha) for each addition
        Reading(diff) ==
            [fresh EXCEPT
               !.state = "loading", !.pc = "blobs",
               !.additions = diff.additions,
               !.found = [i \in 1..Len(diff.additions) |->
                             diff.additions[i].sha \in blobStore],
               !.missing = SelectSeq(diff.additions,
                               LAMBDA a : a.sha \notin blobStore)]
    IN /\ cm.pc = "none"
       /\ \/ \* if (!scopedTrees || !unscopedTree) return false
             cm' = [fresh EXCEPT !.ret = "false", !.end = cm.state]
          \/ \* repoWithWriteAccess === null && kind === 'github' && appSlug?.value
             cm' = [fresh EXCEPT !.state = "needs-fork", !.end = "needs-fork",
                                 !.ret = "false"]
          \/ \E reading \in {Reading(diffTrees(dOld, dNew))} :
             \E kind \in StorageKinds, access \in BOOLEAN, appSlug \in BOOLEAN,
                branch \in Range(CommitBranches) :
                 /\ ~(~access /\ kind = "github" /\ appSlug)
                 /\ cm' = [reading EXCEPT !.kind = kind, !.access = access,
                                          !.branch = branch]
       /\ UNCHANGED remote
       /\ CommitFrame

\* the addition whose read rejects Promise.all: none
FirstMissing_None(additions, found) == 0
\* the addition whose read rejects Promise.all: the first one, in the order
\* of the reads, whose blob getBlobFromPersistedCache did not find; 0 if none
FirstMissing(additions, found) ==
    IF \A i \in 1..Len(additions) : found[i] THEN 0
    ELSE CHOOSE i \in 1..Len(additions) :
             ~found[i] /\ \A j \in 1..(i - 1) : found[j]

\* the reads have settled. A missing blob throws; with a path prefix the
\* tree cache is hydrated, which may throw; then the first mutation is sent
\* with expectedHeadOid override?.sha ?? baseCommit, or the local API is
\* called.
CommitBlobs ==
    \E prefix \in BOOLEAN, hydrated \in BOOLEAN, expectedHeadOid \in Oids :
        LET m == FirstMissing(cm.additions, cm.found)
        IN /\ cm.pc = "blobs"
           /\ cm' =
                IF m # 0
                THEN Caught([message |-> "Failed to get blob",
                             sha |-> cm.additions[m].sha,
                             path |-> cm.additions[m].path])
                ELSE IF prefix /\ ~hydrated
                THEN Caught(Failure("hydrate"))
                ELSE IF cm.kind \in {"github", "cloud"}
                THEN IF ~cm.access
                     \* repoWithWriteAccess!.owner of null
                     THEN Caught(Failure("TypeError"))
                     ELSE [cm EXCEPT !.pc = "first", !.additions = <<>>, !.found = <<>>,
                                     !.sent = <<[branch |-> cm.branch,
                                                expectedHeadOid |-> expectedHeadOid]>>]
                ELSE [cm EXCEPT !.pc = "local", !.additions = <<>>, !.found = <<>>,
                                !.local = 1]
           /\ UNCHANGED remote
           /\ CommitFrame

\* What the host may answer to a mutation: the new head when the expected
\* head is the head and the branch is open, STALE_DATA when it is not the
\* head, BRANCH_PROTECTION_RULE_VIOLATION when the branch is protected (which
\* of the two it reports when both apply is the host's choice), or an error
\* without a type, or a result with neither error nor target.
Replies(mutation) ==
    {"error", "empty"}
    \cup (IF mutation.branch \in remote.protected
          THEN {"BRANCH_PROTECTION_RULE_VIOLATION"} ELSE {})
    \cup (IF mutation.expectedHeadOid # remote.head[mutation.branch]
          THEN {"STALE_DATA"} ELSE {})
    \cup (IF /\ mutation.expectedHeadOid = remote.head[mutation.branch]
             /\ mutation.branch \notin remote.protected
          THEN {"ok"} ELSE {})

\* the host after it answered: an accepted commit is the new head
Answered(mutation, reply, oid) ==
    IF reply = "ok" THEN [remote EXCEPT !.head[mutation.branch] = oid] ELSE remote

\* if (result.error) throw result.error; if (target) { setState updated;
\* return true }; throw new Error('Failed to update')
Settle(reply) ==
    IF reply = "ok" THEN Return("updated", "true", NoError)
    ELSE IF reply = "empty" THEN Caught(Failure("Failed to update"))
    ELSE Caught(Failure(reply))

\* the result of the first mutation arrives
CommitFirstReply ==
    /\ cm.pc = "first"
    /\ \E reply \in Replies(cm.sent[1]), oid \in Oids :
        /\ reply = "ok" => oid # remote.head[cm.sent[1].branch]
        /\ reply # "ok" => oid = 1
        /\ remote' = Answered(cm.sent[1], reply, oid)
        /\ cm' =
             LET got == [cm EXCEPT !.replies = Append(@, reply)]
             IN IF reply = "BRANCH_PROTECTION_RULE_VIOLATION"
                THEN [got EXCEPT !.state = "needs-new-branch", !.end = "needs-new-branch",
                                 !.ret = "false", !.pc = "none",
                                 !.kind = "none", !.access = FALSE]
                ELSE IF reply = "STALE_DATA"
                \* FetchRef of refs/heads/${branchInfo.currentBranch} is sent
                THEN [got EXCEPT !.pc = "fetch"]
                ELSE [Settle(reply) EXCEPT !.replies = got.replies]
        /\ CommitFrame

\* runMutation(refData.data.repository.ref.target.oid) sent with the first
\* expected head again
RetryExpected_Same(first, target) == first
\* the expected head of the second mutation
RetryExpected(first, target) == target

\* the result of FetchRef arrives: without a target 'Branch not found' is
\* thrown, otherwise the second mutation is sent
CommitFetched ==
    \E found \in BOOLEAN :
        LET target == remote.head[CurrentBranch]
        IN /\ cm.pc = "fetch"
           /\ cm' =
                IF ~found
                THEN [Caught(Failure("Branch not found")) EXCEPT
                        !.fetches = Append(@, [found |-> FALSE, oid |-> 0])]
                ELSE [cm EXCEPT
                        !.pc = "second",
                        !.fetches = Append(@, [found |-> TRUE, oid |-> target]),
                        !.sent = Append(@,
                            [branch |-> cm.branch,
                             expectedHeadOid |->
                                 RetryExpected(cm.sent[1].expectedHeadOid, target)])]
           /\ UNCHANGED remote
           /\ CommitFrame

\* the result of the second mutation arrives
CommitSecondReply ==
    /\ cm.pc = "second"
    /\ \E reply \in Replies(cm.sent[2]), oid \in Oids :
        /\ reply = "ok" => oid # remote.head[cm.sent[2].branch]
        /\ reply # "ok" => oid = 1
        /\ remote' = Answered(cm.sent[2], reply, oid)
        /\ cm' = [Settle(reply) EXCEPT !.replies = Append(cm.replies, reply)]
        /\ CommitFrame

\* the answer of /api/keystatic/update arrives
CommitLocalReply ==
    \E ok \in BOOLEAN, hydrated \in BOOLEAN :
        /\ cm.pc = "local"
        /\ cm' = IF ~ok THEN Caught(Failure("update"))
                  ELSE IF ~hydrated THEN Caught(Failure("hydrate"))
                  ELSE Return("updated", "true", NoError)
        /\ UNCHANGED remote
        /\ CommitFrame

\* () => setState({kind: 'idle'})
CommitReset ==
    /\ cm.state # "idle"
    /\ cm' = [cm EXCEPT !.state = "idle"]
    /\ UNCHANGED remote
    /\ CommitFrame

\* someone else pushes to a branch
RemotePush ==
    \E b \in Range(CommitBranches), oid \in Oids :
        /\ oid # remote.head[b]
        /\ remote' = [remote EXCEPT !.head[b] = oid]
        /\ UNCHANGED cm
        /\ CommitFrame

NextCommit ==
    \/ CommitCall \/ CommitBlobs \/ CommitFirstReply \/ CommitFetched
    \/ CommitSecondReply \/ CommitLocalReply \/ CommitReset
    \/ RemotePush \/ SetBlob \/ ExtraRootsSet

SpecCommit == InitCommit /\ [][NextCommit]_vars

\* Each awaited blob read, mutation, ref fetch and local request settles: the
\* continuation of a call that waits for one runs.
CommitFairness ==
    /\ WF_vars(CommitBlobs)
    /\ WF_vars(CommitFirstReply)
    /\ WF_vars(CommitFetched)
    /\ WF_vars(CommitSecondReply)
    /\ WF_vars(CommitLocalReply)

\* the steps of a commit call and of what it reads: the blob store and the
\* remote
NextCommitFair ==
    \/ CommitCall \/ CommitBlobs \/ CommitFirstReply \/ CommitFetched
    \/ CommitSecondReply \/ CommitLocalReply \/ CommitReset
    \/ RemotePush \/ SetBlob

SpecCommitFair == InitCommit /\ [][NextCommitFair]_vars /\ CommitFairness

\* ------------------------------------------------------------------------
\* Vocabulary of the diff properties (defined on the trees, not on the diff)
\* ------------------------------------------------------------------------
\* every node below a children Map, depth first, with its full path
RECURSIVE Walk(_, _)
Walk(tree, prefix) ==
    Flatten([i \in 1..Len(tree) |->
        <<[path |-> prefix \o tree[i][1], entry |-> tree[i][2].entry]>>
        \o (IF HasChildren(tree[i][2])
            THEN Walk(tree[i][2].children, prefix \o tree[i][1]) ELSE <<>>)])

Nodes(tree) == Range(Walk(tree, <<>>))
Leaves(tree) == SelectSeq(Walk(tree, <<>>), LAMBDA w : w.entry.type # "tree")
LeafMapOf(tree) == {<<w.path, w.entry.sha>> : w \in Range(Leaves(tree))}
HasNodeAt(tree, p) == \E w \in Nodes(tree) : w.path = p
NodeAt(tree, p) == CHOOSE w \in Nodes(tree) : w.path = p
IsPrefix(p, q) == Len(p) <= Len(q) /\ SubSeq(q, 1, Len(p)) = p
LeavesUnder(tree, p) ==
    {w.path : w \in {l \in Range(Leaves(tree)) : IsPrefix(p, l.path)}}

AdditionPaths == {dOut.additions[i].path : i \in 1..Len(dOut.additions)}
DeletionPaths == Range(dOut.deletions)
NoDuplicates(s) == \A i, j \in 1..Len(s) : s[i] = s[j] => i = j

\* T1 with every deleted path removed and every added path set to its sha
ApplyDiff(leafMap, out) ==
    {pr \in leafMap : pr[1] \notin Range(out.deletions)
                      /\ \A i \in 1..Len(out.additions) : out.additions[i].path # pr[1]}
    \cup {<<out.additions[i].path, out.additions[i].sha>> : i \in 1..Len(out.additions)}

\* a path that holds a blob in one tree and a directory in the other
TypeChanges ==
    {w.path : w \in {x \in Nodes(dOld) :
        /\ HasNodeAt(dNew, x.path)
        /\ \/ x.entry.type = "blob" /\ NodeAt(dNew, x.path).entry.type = "tree"
           \/ x.entry.type = "tree" /\ NodeAt(dNew, x.path).entry.type = "blob"}}

\* a directory of the old tree at whose path the new tree has nothing
OmittedDirs ==
    {w.path : w \in {x \in Nodes(dOld) :
        x.entry.type = "tree" /\ ~HasNodeAt(dNew, x.path)}}

\* the blob leaves of the new tree that the old tree lacks or holds with
\* another sha, depth first
ExpectedAdditions ==
    LET isNew(w) ==
            /\ w.entry.type = "blob"
            /\ \/ ~HasNodeAt(dOld, w.path)
               \/ NodeAt(dOld, w.path).entry.sha # w.entry.sha
        picked == SelectSeq(Walk(dNew, <<>>), isNew)
    IN [i \in 1..Len(picked) |-> [path |-> picked[i].path, sha |-> picked[i].entry.sha]]

\* the new tree is the old tree with the content of exactly one blob changed
OneBlobChanged ==
    LET o == Walk(dOld, <<>>)
        n == Walk(dNew, <<>>)
    IN /\ Len(o) = Len(n)
       /\ \A i \in 1..Len(o) : o[i].path = n[i].path /\ o[i].entry.mode = n[i].entry.mode
       /\ Cardinality({i \in 1..Len(o) :
              o[i].entry.type # "tree" /\ o[i].entry.sha # n[i].entry.sha}) = 1
       /\ \A i \in 1..Len(o) :
              (o[i].entry.type # "tree" /\ o[i].entry.sha # n[i].entry.sha)
                  => o[i].entry.type = "blob"

\* ------------------------------------------------------------------------
\* Properties of the diff
\* ------------------------------------------------------------------------
\* C4: applying diffTrees(T1, T2) to T1 (remove every deletion, set every
\* addition path to its sha) yields the leaf path -> sha mapping of T2.
C4_DiffAppliedYieldsNew ==
    dOut.done => ApplyDiff(LeafMapOf(dOld), dOut) = LeafMapOf(dNew)

\* C5: diffTrees(T, T) has no additions and no deletions.
C5_DiffReflexive ==
    (dOut.done /\ dOld = dNew) => (dOut.additions = <<>> /\ dOut.deletions = <<>>)

C5_Witness ==
    /\ dOut.done /\ dOld = dNew /\ MapSize(dOld) >= 3
    /\ \E w \in Nodes(dOld) : w.entry.type = "tree"
    /\ dOut.additions = <<>>

\* C6: where a path changes between blob and directory, the old blob path
\* (or every old leaf under the old directory) is deleted and the new blob
\* (or every new leaf under the new directory) is added.
C6_TypeChangeDeletesThenAdds ==
    dOut.done =>
        \A p \in TypeChanges :
            /\ LeavesUnder(dOld, p) \subseteq DeletionPaths
            /\ LeavesUnder(dNew, p) \subseteq AdditionPaths

\* C7: no path is both added and deleted by one diff.
C7_AdditionsDeletionsDisjoint ==
    dOut.done => AdditionPaths \cap DeletionPaths = {}

C7_Witness ==
    /\ dOut.done /\ dOut.additions # <<>> /\ dOut.deletions # <<>>
    /\ \E w \in Nodes(dOld) :
           /\ w.entry.type = "blob" /\ w.path \in AdditionPaths
    /\ \E p \in DeletionPaths : Len(p) > 1

\* C8: for a directory of the old tree that the new tree omits, the
\* deletions below it are exactly its leaves, one deletion per leaf, and the
\* directory itself is not deleted.
C8_OmittedDirDeletesEachLeaf ==
    dOut.done =>
        \A p \in OmittedDirs :
            LET below == SelectSeq(dOut.deletions, LAMBDA d : IsPrefix(p, d))
            IN /\ Range(below) = LeavesUnder(dOld, p)
               /\ NoDuplicates(below)
               /\ p \notin DeletionPaths

\* C9: the additions are exactly the blob leaves of the new tree whose path
\* is absent from the old tree or has another sha there, with full path and
\* new sha, in depth-first order; one changed blob gives one addition and no
\* deletion.
C9_AdditionsAreChangedBlobs ==
    dOut.done =>
        /\ dOut.additions = ExpectedAdditions
        /\ OneBlobChanged => (Len(dOut.additions) = 1 /\ dOut.deletions = <<>>)

\* old {a: #1}, new {a: #2, b/a: #1}
C9_Witness ==
    /\ dOut.done
    /\ dOld = MkMap(<<[name |-> "a", mode |-> ModeBlob, blob |-> 1]>>, <<>>)
    /\ dNew = MkMap(<<[name |-> "a", mode |-> ModeBlob, blob |-> 2],
                      [name |-> "b", mode |-> ModeTree,
                       sub |-> <<[name |-> "a", mode |-> ModeBlob, blob |-> 1]>>]>>, <<>>)
    /\ dOut.additions = <<[path |-> <<"a">>, sha |-> <<2>>],
                          [path |-> <<"b", "a">>, sha |-> <<1>>]>>
    /\ dOut.deletions = <<>>

\* ------------------------------------------------------------------------
\* Properties of the stored trees
\* ------------------------------------------------------------------------
\* a children Map as a set: key, entry and, for a directory, its children
RECURSIVE Structure(_)
Structure(m) ==
    {[key |-> m[i][1], entry |-> m[i][2].entry, dir |-> HasChildren(m[i][2]),
      children |-> IF HasChildren(m[i][2]) THEN Structure(m[i][2].children) ELSE {}]
        : i \in 1..Len(m)}

\* C10: a tree stored with collectTrees and rebuilt with
\* constructTreeFromStoredTrees at its root sha is the same tree: the same
\* path segments, modes, shas, types and nesting.
C10_StoreThenBuildRoundTrip ==
    tPc = "built" =>
        /\ tOut # Undefined
        /\ tOut[1].entry = [mode |-> ModeTree, path |-> <<>>,
                            sha |-> TreeSha(tIn), type |-> "tree"]
        /\ Structure(tOut[1].children) = Structure(tIn)

C10_Witness ==
    /\ tPc = "built" /\ tOut # Undefined
    /\ MapSize(tIn) = 3
    /\ \E i \in 1..Len(tIn) :
           /\ HasChildren(tIn[i][2])
           /\ \E j \in 1..Len(tIn[i][2].children) :
                  tIn[i][2].children[j][2].entry.type = "symlink"
    /\ Structure(tOut[1].children) = Structure(tIn)

\* the shas a build from `seen` looks up: those named by the mode-040000
\* entries of the trees it finds
RECURSIVE TreeRefs(_, _)
TreeRefs(trees, seen) ==
    LET dirs(k) == {MapGet(trees, k)[i].sha :
                       i \in {j \in 1..Len(MapGet(trees, k)) :
                                 MapGet(trees, k)[j].mode = ModeTree}}
        next == seen \cup UNION {dirs(k) : k \in {x \in seen : MapHas(trees, x)}}
    IN IF next = seen THEN seen ELSE TreeRefs(trees, next)

TornAt(trees, sha) == \E k \in TreeRefs(trees, {sha}) : ~MapHas(trees, k)

\* C11: building a tree returns undefined exactly when the root sha or a tree
\* sha referenced, directly or through other trees, by a mode-040000 entry is
\* missing from the stored-tree mapping; otherwise it returns the whole tree,
\* never a part of it.
C11_BuildUndefinedIffTorn ==
    tPc = "built" =>
        /\ (tOut = Undefined) <=> TornAt(SetAll(<<>>, tAll), TreeSha(tIn))
        /\ tOut # Undefined => Structure(tOut[1].children) = Structure(tIn)

\* the root is stored, a nested directory is not
C11_Witness ==
    /\ tPc = "built" /\ tOut = Undefined
    /\ MapHas(SetAll(<<>>, tAll), TreeSha(tIn))
    /\ \E i \in 1..Len(tIn) :
           /\ HasChildren(tIn[i][2])
           /\ MapHas(SetAll(<<>>, tAll), tIn[i][2].entry.sha)
           /\ \E j \in 1..Len(tIn[i][2].children) :
                  /\ HasChildren(tIn[i][2].children[j][2])
                  /\ ~MapHas(SetAll(<<>>, tAll), tIn[i][2].children[j][2].entry.sha)

\* C12: in the list collectTrees fills, the pair of every subtree comes
\* before the pair of the tree that names it, and the last pair is the root's
\* own sha and entries.
C12_SubtreesBeforeParentRootLast ==
    tPc # "start" =>
        /\ tAll[Len(tAll)] = <<TreeSha(tIn), StoredEntries(tIn)>>
        /\ \A i \in 1..Len(tAll) : \A k \in 1..Len(tAll[i][2]) :
               tAll[i][2][k].mode = ModeTree =>
                   \E j \in 1..(i - 1) : tAll[j][1] = tAll[i][2][k].sha
        /\ \A w \in Nodes(tIn) :
               w.entry.type = "tree" => \E j \in 1..Len(tAll) : tAll[j][1] = w.entry.sha

C12_Witness ==
    /\ tPc = "collected" /\ Len(tAll) = 3
    /\ \E i \in 1..Len(tIn) :
           /\ HasChildren(tIn[i][2])
           /\ \E j \in 1..Len(tIn[i][2].children) :
                  HasChildren(tIn[i][2].children[j][2])
    /\ tAll[3][1] = TreeSha(tIn) /\ tAll[2][2][1].sha = tAll[1][1]

\* ------------------------------------------------------------------------
\* Properties of the extra-roots registry
\* ------------------------------------------------------------------------
\* C13: after set(branch, sha) the registry read back holds branch -> sha with
\* updatedAt the time of the call, whatever sha the branch had before; after
\* remove(branch) the registry read back has no entry for the branch.
C13_SetThenGetRemoveThenGet ==
    /\ regOp.kind = "set" =>
           /\ regOp.branch \in DOMAIN getExtraRoots(lsRoots)
           /\ getExtraRoots(lsRoots)[regOp.branch]
                  = [sha |-> regOp.sha, updatedAt |-> regOp.at]
    /\ regOp.kind = "remove" => regOp.branch \notin DOMAIN getExtraRoots(lsRoots)

\* a set over another sha, later than the first
C13_Witness ==
    /\ regOp.kind = "set" /\ regOp.had /\ regOp.before # regOp.sha /\ regOp.at > 0
    /\ getExtraRoots(lsRoots)[regOp.branch].sha = regOp.sha

\* a value found under the key that is a registry: an object whose members
\* each carry a string sha and a string updatedAt
WellFormed(item) ==
    /\ item.kind = "json" /\ item.val.t = "object"
    /\ \A b \in DOMAIN item.val.m :
           LET e == item.val.m[b]
           IN /\ e.t = "object"
              /\ e.m["sha"].t = "string"
              /\ e.m["updatedAt"].t = "string"

\* C14: when the persisted value is absent, is not JSON or has an entry the
\* schema rejects, getExtraRoots returns the empty mapping.
C14_MalformedReadsEmpty ==
    (regOp.kind = "mount" /\ ~WellFormed(lsRoots)) => roots = EmptyFn

\* one entry is a registry entry, the other lacks its sha
C14_Witness ==
    /\ regOp.kind = "mount" /\ roots = EmptyFn
    /\ lsRoots.kind = "json" /\ lsRoots.val.t = "object"
    /\ DOMAIN lsRoots.val.m = {"main", "dev"}
    /\ lsRoots.val.m["main"] = JEntry(JString(TreeSha(TreeA)), JString(ToISOString(0)),
                                       JMissing)
    /\ lsRoots.val.m["dev"] = JEntry(JMissing, JString(ToISOString(0)), JMissing)

\* C15: when clearObjectStore has completed, the blob store and the tree
\* store are empty and the registry of the scope reads as the empty mapping.
C15_ClearEmptiesStoresAndRegistry ==
    (clr.pc = "done" /\ clr.solo) =>
        /\ blobStore = {}
        /\ treeStore = EmptyFn
        /\ getExtraRoots(lsRoots) = EmptyFn

\* both stores and the registry held something when the call was made
C15_Witness ==
    /\ clr.pc = "done" /\ clr.solo
    /\ clr.had.blobs /\ clr.had.trees /\ clr.had.roots
    /\ blobStore = {} /\ treeStore = EmptyFn /\ lsRoots = NoItem

\* ------------------------------------------------------------------------
\* Properties of garbage collection
\* ------------------------------------------------------------------------
\* the shas reachable from `seen` through the entries of the stored trees
RECURSIVE ReachFrom(_, _)
ReachFrom(trees, seen) ==
    LET next == seen \cup UNION {
                    {trees[k].entries[i].sha : i \in 1..Len(trees[k].entries)}
                        : k \in {x \in seen \cap DOMAIN trees : trees[x].ok}}
    IN IF next = seen THEN seen ELSE ReachFrom(trees, next)

\* a collection that ran alone has returned
GcRanAlone == gc.pc = "done" /\ gcSolo
LiveAtCall == ReachFrom(gcPre.trees, gcPre.callerRoots \cup gcPre.extraRoots)

\* C1: after a collection with nothing interleaved, the tree store holds
\* exactly the trees it held before that are reachable from the caller's
\* roots and the extra roots, and the blob store exactly the blobs so
\* reachable.
C1_GcKeepsExactlyTheReachable ==
    GcRanAlone =>
        /\ treeStore = [k \in DOMAIN gcPre.trees \cap LiveAtCall |-> gcPre.trees[k]]
        /\ blobStore = gcPre.blobs \cap LiveAtCall

\* C2: when every stored tree and blob is reachable from the roots, a
\* collection removes nothing from the tree store, the blob store and the
\* tree cache.
C2_GcNoOpWhenAllReachable ==
    (GcRanAlone /\ DOMAIN gcPre.trees \cup gcPre.blobs \subseteq LiveAtCall) =>
        /\ treeStore = gcPre.trees
        /\ blobStore = gcPre.blobs
        /\ gcPre.cache.loaded =>
               \A k \in DOMAIN gcPre.cache.map :
                   k \in DOMAIN cache.map /\ cache.map[k] = gcPre.cache.map[k]

\* C3: a tree or blob reachable from a registered extra root is not deleted
\* by the collector, whatever roots the caller passes.
C3_GcKeepsExtraRootObjects ==
    (gc.pc \in {"delete", "done"} /\ gcSolo) =>
        LET fromExtra == ReachFrom(gcPre.trees, gcPre.extraRoots)
        IN /\ DOMAIN gcPre.trees \cap fromExtra \subseteq DOMAIN treeStore
           /\ gcPre.blobs \cap fromExtra \subseteq blobStore

\* C20: a value of the tree store that treeSchema rejects is not served by
\* getTreeFromPersistedCache, and the next collection deletes it from the
\* tree store whatever the roots are.
C20_InvalidTreeNotServedAndCollected ==
    /\ \A k \in DOMAIN treeStore :
           (~treeStore[k].ok /\ cache.loaded) =>
               constructTreeFromStoredTrees(k, AsMap(cache.map), <<>>) = Undefined
    /\ GcRanAlone =>
           \A k \in DOMAIN gcPre.trees : ~gcPre.trees[k].ok => k \notin DOMAIN treeStore

\* ------------------------------------------------------------------------
\* Properties of committing
\* ------------------------------------------------------------------------
\* a commit call has returned
Returned == cm.pc = "none" /\ cm.ret # "none"
FirstStale == Len(cm.replies) >= 1 /\ cm.replies[1] = "STALE_DATA"

\* C16: when a commit call for a branch returns true with the state
\* 'updated', the registry has no entry for that branch.
C16_CommitSuccessClearsExtraRoot ==
    [][(cm.pc # "none" /\ cm'.pc = "none" /\ cm'.ret = "true" /\ cm'.end = "updated")
           => cm'.branch \notin DOMAIN getExtraRoots(lsRoots')]_vars

\* C17, as claimed: after a first STALE_DATA the head is fetched again and
\* exactly one more mutation is sent, expecting the fetched oid; no call sends
\* more than two mutations; a second STALE_DATA ends in the error state.
C17_StaleAlwaysRetriesOnce ==
    /\ Len(cm.sent) <= 2
    /\ (Returned /\ FirstStale) =>
           /\ Len(cm.fetches) = 1 /\ cm.fetches[1].found
           /\ Len(cm.sent) = 2
           /\ cm.sent[2].expectedHeadOid = cm.fetches[1].oid
    /\ (Len(cm.replies) = 2 /\ cm.replies[2] = "STALE_DATA") =>
           Returned /\ cm.end = "error" /\ cm.ret = "false"

\* C17, amended: after a first STALE_DATA the head is fetched again; when the
\* fetch returns a head exactly one more mutation is sent, for the same
\* branch and expecting the fetched oid; when it returns none the call ends
\* in the error state with no second mutation. No call sends more than two
\* mutations and a second STALE_DATA ends in the error state.
C17_StaleRetriesOnceWhenHeadFound ==
    /\ Len(cm.sent) <= 2
    /\ (Returned /\ FirstStale) =>
           /\ Len(cm.fetches) = 1
           /\ cm.fetches[1].found =>
                  /\ Len(cm.sent) = 2
                  /\ cm.sent[2].branch = cm.sent[1].branch
                  /\ cm.sent[2].expectedHeadOid = cm.fetches[1].oid
           /\ ~cm.fetches[1].found =>
                  /\ Len(cm.sent) = 1
                  /\ cm.end = "error" /\ cm.ret = "false"
    /\ (Len(cm.replies) = 2 /\ cm.replies[2] = "STALE_DATA") =>
           Returned /\ cm.end = "error" /\ cm.ret = "false"

\* the retry, expecting another head than the first mutation, is accepted
C17_Witness ==
    /\ Returned /\ cm.replies = <<"STALE_DATA", "ok">>
    /\ Len(cm.sent) = 2
    /\ cm.sent[2].expectedHeadOid # cm.sent[1].expectedHeadOid
    /\ cm.sent[2].expectedHeadOid = cm.fetches[1].oid
    /\ cm.end = "updated"

\* C18: whenever the host rejects a mutation, the first or the retry, with
\* BRANCH_PROTECTION_RULE_VIOLATION, the call ends in 'needs-new-branch',
\* returns false and sends no further mutation.
C18_BranchProtectionNeedsNewBranch ==
    \A i \in 1..Len(cm.replies) :
        cm.replies[i] = "BRANCH_PROTECTION_RULE_VIOLATION" =>
            /\ Returned /\ cm.end = "needs-new-branch" /\ cm.ret = "false"
            /\ Len(cm.sent) = i

\* C19: when the blob of an addition is missing from the blob store while a
\* commit is prepared, the call ends in 'error' with a message naming the sha
\* and path of a missing addition, returns false, and sends neither a
\* mutation nor a local update request.
C19_MissingBlobFailsBeforeSending ==
    cm.missing # <<>> =>
        /\ cm.sent = <<>> /\ cm.local = 0
        /\ cm.pc \in {"blobs", "none"}
        /\ cm.pc = "none" =>
               /\ cm.end = "error" /\ cm.ret = "false"
               /\ cm.error.message = "Failed to get blob"
               /\ \E i \in 1..Len(cm.missing) :
                      cm.missing[i] = [path |-> cm.error.path, sha |-> cm.error.sha]

\* of two additions the first was found and the second was not
C19_Witness ==
    /\ Returned /\ cm.end = "error" /\ cm.ret = "false"
    /\ dOld = TreeA /\ dNew = TreeN
    /\ cm.missing = <<[path |-> <<"b">>, sha |-> BlobSha(2)]>>
    /\ cm.error = [message |-> "Failed to get blob", sha |-> BlobSha(2), path |-> <<"b">>]
    /\ cm.sent = <<>> /\ cm.local = 0

\* ------------------------------------------------------------------------
\* Properties of the tree cache
\* ------------------------------------------------------------------------
\* the tree keys a collector that ran with nothing interleaved has deleted
\* from the tree store
GcDeletedTrees == DOMAIN gcPre.trees \ DOMAIN treeStore
\* the tree cache is set and holds key k
Served(k) == cache.loaded /\ k \in DOMAIN cache.map

\* C21: from the moment the collector has deleted a key from the tree store,
\* the states before its return included, the tree cache does not hold that
\* key; and the keys the collector removes from the cache are those it
\* deleted from the tree store.
C21_CacheEvictedWithStoreDeletion ==
    /\ []((gc.pc \in {"delete", "done"} /\ gcSolo) =>
              \A k \in GcDeletedTrees : ~Served(k))
    /\ [][(gc.pc = "delete" /\ gc'.pc = "done" /\ cache.loaded) =>
              DOMAIN cache.map \ DOMAIN cache'.map
                  = gc.toDelete.treeKeys \cap DOMAIN cache.map]_vars

\* C22: a key of the tree cache stays in it under every step of the loads,
\* writes and reads, except a key the collector removes when it returns.
C22_CacheKeysStayUnlessCollected ==
    [][cache.loaded =>
          \A k \in DOMAIN cache.map :
              \/ Served(k)'
              \/ gc.pc = "delete" /\ gc'.pc = "done" /\ k \in gc.toDelete.treeKeys]_vars

\* C27: with no collection and no clear, a tree that setTreeToPersistedCache
\* has written (every key of the tree store is one) is returned by
\* getTreeFromPersistedCache, also when it was written during the first load.
C27_WrittenTreeIsRead ==
    \A t \in StoreInputs :
        TreeSha(t) \in DOMAIN treeStore =>
            getTreeFromPersistedCache(TreeSha(t)) # Undefined

\* C28: when clearObjectStore has completed, getTreeFromPersistedCache
\* returns undefined for every tree that is not in the tree store, that is,
\* that was not written again since the clear.
C28_ClearedTreeIsNotRead ==
    clr.pc = "done" =>
        \A t \in StoreInputs :
            TreeSha(t) \notin DOMAIN treeStore =>
                getTreeFromPersistedCache(TreeSha(t)) = Undefined

\* ------------------------------------------------------------------------
\* Properties of the registry under a clear and under another tab
\* ------------------------------------------------------------------------
\* this tab's provider has just run set or remove
RegistryCalled == regOp' # regOp /\ regOp'.kind \in {"set", "remove"}
\* what the persisted item holds for a branch
PersistedEntry(item, branch) ==
    IF branch \in DOMAIN getExtraRoots(item)
    THEN Defined(getExtraRoots(item)[branch]) ELSE Undefined

\* C29: a set issued after clearObjectStore, with no other registry call in
\* between, persists the branch it names and no branch the clear removed.
C29_ClearedBranchStaysRemoved ==
    [][(clr.pc \in {"clearing", "done"} /\ clr.solo
          /\ RegistryCalled /\ regOp'.kind = "set")
         => DOMAIN getExtraRoots(lsRoots') = {regOp'.branch}]_vars

\* C30: set(branch, sha) and remove(branch) leave the persisted entry of
\* every other branch as it was.
C30_SetRemoveTouchOnlyTheirBranch ==
    [][RegistryCalled =>
          \A i \in 1..Len(RegistryBranches) :
              RegistryBranches[i] # regOp'.branch =>
                  PersistedEntry(lsRoots', RegistryBranches[i])
                      = PersistedEntry(lsRoots, RegistryBranches[i])]_vars

\* ------------------------------------------------------------------------
\* Properties of the marking loop
\* ------------------------------------------------------------------------
\* the hashes the loop can meet: the roots and what is found from them by
\* expanding each hash that is a tree and no blob
RECURSIVE MarkReach(_, _, _)
MarkReach(blobs, trees, seen) ==
    LET next == seen \cup UNION {{trees[k][i].sha : i \in 1..Len(trees[k])}
                                    : k \in (seen \cap DOMAIN trees) \ blobs}
    IN IF next = seen THEN seen ELSE MarkReach(blobs, trees, next)

\* C25: for any stores and roots the marking loop ends without an error,
\* having processed each hash it met once: the roots and the entries found
\* from them, those in neither store included; these leave the sets alone,
\* a blob met is kept and so is a tree met.
C25_MarkingVisitsEachHashOnce ==
    mark.pc = "done" =>
        LET met == MarkReach(mark.blobs, mark.trees, Range(mark.roots))
        IN /\ NoDuplicates(mark.visited)
           /\ Range(mark.visited) = met
           /\ mark.blobsToDelete = mark.blobs \ met
           /\ mark.treesToDelete = DOMAIN mark.trees \ (met \ mark.blobs)

\* two trees that list each other, one of them twice, and a root in neither
\* store
C25_Witness ==
    /\ mark.pc = "done"
    /\ mark.roots = <<(<<0, 1>>), (<<1>>)>>
    /\ mark.blobs = {}
    /\ DOMAIN mark.trees = {<<0, 1>>, <<0, 2>>}
    /\ Len(mark.trees[<<0, 1>>]) = 2 /\ Len(mark.trees[<<0, 2>>]) = 1
    /\ [i \in 1..2 |-> mark.trees[<<0, 1>>][i].sha] = <<(<<0, 2>>), (<<0, 2>>)>>
    /\ [i \in 1..1 |-> mark.trees[<<0, 2>>][i].sha] = <<(<<0, 1>>)>>
    /\ mark.visited = <<(<<0, 1>>), (<<1>>), (<<0, 2>>)>>
    /\ mark.treesToDelete = {}

\* ------------------------------------------------------------------------
\* Properties of deleting an entry
\* ------------------------------------------------------------------------
\* C23: onDelete registers the new root only when the write of its tree has
\* resolved: every registered root names a tree whose write has completed,
\* and when the write fails the registry is as it was when onDelete was
\* called.
C23_RootRegisteredAfterPersist ==
    /\ \A b \in DOMAIN getExtraRoots(lsRoots) :
           getExtraRoots(lsRoots)[b].sha \in del.written
    /\ del.pc = "failed" => (lsRoots = del.before /\ ~del.ok)

\* the write of {a: #1} failed after an earlier one of the other tree had
\* been registered
C23_Witness ==
    /\ del.pc = "failed" /\ del.tree = TreeA /\ ~del.ok
    /\ del.written = {TreeSha(TreeN)}
    /\ TreeSha(TreeA) \notin DOMAIN treeStore
    /\ getExtraRoots(lsRoots)[Branches[1]].sha = TreeSha(TreeN)

\* C24: when onDelete registers its root after a collector has read its
\* roots and marked the new tree, then once that collector has deleted, the
\* registered root names a tree that is not in the tree store.
C24_RootRegisteredTooLateIsLost ==
    (del.pc = "done" /\ del.doomed /\ gc.pc \in {"delete", "done"}) =>
        /\ Branches[1] \in DOMAIN getExtraRoots(lsRoots)
        /\ getExtraRoots(lsRoots)[Branches[1]].sha = TreeSha(del.tree)
        /\ TreeSha(del.tree) \notin DOMAIN treeStore

\* the collector has returned; the root registered while it ran is lost
C24_Witness ==
    /\ del.pc = "done" /\ del.doomed /\ del.ok /\ gc.pc = "done"
    /\ del.tree = TreeN
    /\ getExtraRoots(lsRoots)[Branches[1]].sha = TreeSha(TreeN)
    /\ TreeSha(TreeN) \in del.written
    /\ TreeSha(TreeN) \notin DOMAIN treeStore

\* ------------------------------------------------------------------------
\* Properties of collecting what another tab wrote
\* ------------------------------------------------------------------------
\* C26: a collector that ran with nothing interleaved has deleted no blob
\* that the trees of the tree store reach from its roots, the caller's and
\* the registered ones, whichever tab wrote those trees and roots.
C26_GcKeepsBlobsReachableInStore ==
    (gc.pc \in {"delete", "done"} /\ gcSolo) =>
        gcPre.blobs \cap LiveAtCall \subseteq blobStore

\* ------------------------------------------------------------------------
\* Properties of the diff: symlinks
\* ------------------------------------------------------------------------
\* C31: every leaf of the new tree, blob or symlink, whose full path is
\* absent from the old tree or has another sha there is among the additions
\* with that path and the new sha.
C31_ChangedLeavesAreAdditions ==
    dOut.done =>
        \A w \in Range(Leaves(dNew)) :
            (~HasNodeAt(dOld, w.path) \/ NodeAt(dOld, w.path).entry.sha # w.entry.sha)
                => \E i \in 1..Len(dOut.additions) :
                       dOut.additions[i] = [path |-> w.path, sha |-> w.entry.sha]

\* ------------------------------------------------------------------------
\* Properties of the commit function's result
\* ------------------------------------------------------------------------
\* the states a call that returns false may set
FailedStates == {"needs-fork", "needs-new-branch", "error"}
\* the call read no blob, sent nothing and threw nothing
NothingDone ==
    /\ cm.missing = <<>> /\ cm.sent = <<>> /\ cm.replies = <<>>
    /\ cm.fetches = <<>> /\ cm.local = 0 /\ cm.error = NoError

\* C32, as claimed: a call returns true exactly when the state after it is
\* 'updated', after a call that returns false the state is 'needs-fork',
\* 'needs-new-branch' or 'error', and the call does not reject.
C32_TrueIffUpdated ==
    Returned =>
        /\ cm.ret \in {"true", "false"}
        /\ cm.ret = "true" <=> cm.end = "updated"
        /\ cm.ret = "false" => cm.end \in FailedStates

\* C32, amended: a call that returns true has set the state to 'updated'; a
\* call that returns false has set it to 'needs-fork', 'needs-new-branch' or
\* 'error', or it returned at its first check, with the trees not loaded,
\* having done nothing; the call does not reject.
C32_TrueOnlyIfUpdated ==
    Returned =>
        /\ cm.ret \in {"true", "false"}
        /\ cm.ret = "true" => cm.end = "updated"
        /\ cm.ret = "false" => (cm.end \in FailedStates \/ NothingDone)

\* a call made after a successful one found the trees not loaded: it
\* returned false and the state is still 'updated'
C32_Witness ==
    /\ Returned /\ cm.ret = "false" /\ cm.end = "updated" /\ cm.state = "updated"
    /\ NothingDone

\* C33: with every awaited read and request settling, a call that has set
\* the state to 'loading' returns, ending in 'updated', 'error' or
\* 'needs-new-branch'; no call returns leaving the state 'loading'.
C33_LoadingCallEnds ==
    /\ [](cm.pc = "none" => cm.state # "loading")
    /\ [](Returned => cm.end # "loading")
    /\ (cm.pc # "none") ~>
           (Returned /\ cm.end \in {"updated", "error", "needs-new-branch"})

\* a call went through both mutations and the ref fetch before it ended
C33_Witness ==
    /\ Returned /\ cm.end = "error" /\ cm.state = "error"
    /\ cm.replies = <<"STALE_DATA", "STALE_DATA">>
    /\ Len(cm.fetches) = 1

\* C34: when the ref fetched after STALE_DATA has a target, the second
\* mutation expects the head of the branch it commits to, also when that
\* branch is an override other than the current branch.
C34_RetryExpectsHeadOfTargetBranch ==
    [][(cm.pc = "fetch" /\ cm'.pc = "second")
          => /\ cm'.sent[2].branch = cm.sent[1].branch
             /\ cm'.sent[2].expectedHeadOid = remote.head[cm'.sent[2].branch]]_vars

====
